---- MODULE Spec2Model ----
(***************************************************************************)
(* Loan risk calculation and scoring engine of Lentera Wicaksana Pinjol    *)
(* (LoanCalculator.calculateMetrics and its private helpers).              *)
(*                                                                         *)
(* Numbers are exact rationals <<numerator, denominator>> in lowest terms  *)
(* with a positive denominator, so that thresholds (dtiRatio > 40,         *)
(* effectiveApr > 36) and the final two-decimal rounding are decided as    *)
(* the arithmetic of the source decides them; two further shapes carry the *)
(* behaviour of IEEE doubles that exact rationals do not have (absorption  *)
(* of a very small addend, division by zero).  Math.pow is modelled for    *)
(* natural exponents; reducing_balance inputs are therefore drawn with a   *)
(* whole number of months (InDomain).                                      *)
(***************************************************************************)
EXTENDS Integers, Sequences, FiniteSets, TLC

VARIABLES
    input, out,                 \* LoanCalculator called on its own
    hasResult, showEmptyState,  \* the signals of App
    currentMetrics, currentInput,
    isOjkRegisteredSignal,      \* the signal isOjkRegistered of App
    aiExplanation, isAiLoading, hasAiError,
    calls,                      \* the subscriptions analyzeLoan has started
    lastHandler,                \* the callback that ran last
    explainedCall,              \* the call whose response set aiExplanation
    ojkCache,                   \* the backend's in-memory cache store
    now,                        \* Date.now() of the backend, in milliseconds
    ticks,                      \* how often the clock has advanced
    fetches,                    \* getOjkDataWithCache calls awaiting upstream
    newest,                     \* per endpoint, start time of the latest call
                                \* among those whose fetch succeeded
    cacheEvent,                 \* the step of getOjkDataWithCache taken last
    ojk,                        \* the lists the OJK API serves
    vlPc,                       \* position of the /api/verify-lender handler
    vlBody,                     \* req.body of the request it handles
    vlApps,                     \* the apps list it works with
    vlResponse,                 \* the response it has sent
    form,                       \* the values of the loan form's controls
    formTouched,                \* markAllAsTouched has run
    formIsLoading,              \* the signal isLoading of LoanForm
    verificationStatus,         \* the signals of LoanForm
    isVerifying,
    debouncePending,            \* a lenderName change waits in debounceTime
    lastTerm,                   \* the term distinctUntilChanged let through last
    verifications,              \* the verifyDetailed requests in flight
    statusFor,                  \* the name whose response set the status last
    formEvent,                  \* the handler of the form that ran last
    conversationHistory,        \* the signals of MultimodalChat
    messageInput,
    chatIsLoading,              \* its signal isLoading
    errorMessage,
    selectedFile,
    chatRequests,               \* POSTs to /api/chat-multimodal not yet handled
    chatResponses,              \* responses on their way to the component
    chatSends,                  \* how often sendMessage has run
    chatEvent                   \* the step of the chat that ran last

calcVars == <<input, out>>

cacheVars == <<ojkCache, now, ticks, fetches, newest, cacheEvent>>

appVars ==
    <<hasResult, showEmptyState, currentMetrics, currentInput,
      isOjkRegisteredSignal, aiExplanation, isAiLoading, hasAiError, calls, lastHandler,
      explainedCall>>

lenderVars == <<ojk, vlPc, vlBody, vlApps, vlResponse>>

formVars ==
    <<form, formTouched, formIsLoading, verificationStatus, isVerifying,
      debouncePending, lastTerm, verifications, statusFor, formEvent>>

chatVars ==
    <<conversationHistory, messageInput, chatIsLoading, errorMessage, selectedFile,
      chatRequests, chatResponses, chatSends, chatEvent>>

vars == <<calcVars, appVars, cacheVars, lenderVars, formVars, chatVars>>

\* what the steps of one component leave alone
notCalc == <<appVars, cacheVars, lenderVars, formVars, chatVars>>

notApp == <<calcVars, cacheVars, lenderVars, formVars, chatVars>>

notCache == <<calcVars, appVars, lenderVars, formVars, chatVars>>

notLender == <<calcVars, appVars, cacheVars, formVars, chatVars>>

notForm == <<calcVars, appVars, cacheVars, lenderVars, chatVars>>

notChat == <<calcVars, appVars, cacheVars, lenderVars, formVars>>

(***************************************************************************)
(* Bounds of the input grid.                                               *)
(***************************************************************************)
MaxAmount == 2
MaxTenor == 2
MaxFee == 1
MaxIncome == 3
\* analyzeLoan calls in one behaviour of App
MaxCalls == 2
\* advances of the backend clock, and cache calls awaiting upstream at once
MaxTicks == 2
MaxFetches == 2

(***************************************************************************)
(* Arithmetic of JavaScript numbers on the values of the grid.             *)
(*   <<n, d>>, d > 0   the number n/d, exact and in lowest terms           *)
(*   <<1, 0>>          +Infinity, what x / 0 gives for a positive x        *)
(*   <<n, d, 1>>       the number (n/d) x 1e-20: a double so far below     *)
(*                     2^-53 that adding it to a non-zero <<n, d>> returns *)
(*                     that operand unchanged (round to nearest)           *)
(***************************************************************************)
Abs(i) == IF i < 0 THEN -i ELSE i

RECURSIVE GCD(_, _)
GCD(a, b) == IF b = 0 THEN a ELSE GCD(b, a % b)

Norm(n, d) ==
    LET s == IF d < 0 THEN -1 ELSE 1
        g == GCD(Abs(n), Abs(d))
    IN  <<(s * n) \div g, (s * d) \div g>>

R(i) == <<i, 1>>

Zero == R(0)

Infinity == <<1, 0>>

IsTiny(x) == Len(x) = 3

Coef(x) == <<x[1], x[2]>>

Tiny(c) == IF c[1] = 0 THEN Zero ELSE <<c[1], c[2], 1>>

QAdd(x, y) ==
    LET g == GCD(x[2], y[2])
    IN  Norm(x[1] * (y[2] \div g) + y[1] * (x[2] \div g), (x[2] \div g) * y[2])

QMul(x, y) ==
    LET g1 == GCD(Abs(x[1]), y[2])
        g2 == GCD(Abs(y[1]), x[2])
    IN  Norm((x[1] \div g1) * (y[1] \div g2), (x[2] \div g2) * (y[2] \div g1))

RAdd(x, y) ==
    IF IsTiny(x) /\ IsTiny(y) THEN Tiny(QAdd(Coef(x), Coef(y)))
    ELSE IF IsTiny(x) THEN (IF y = Zero THEN x ELSE y)
    ELSE IF IsTiny(y) THEN (IF x = Zero THEN y ELSE x)
    ELSE IF x = Infinity \/ y = Infinity THEN Infinity
    ELSE QAdd(x, y)

RNeg(x) == IF IsTiny(x) THEN <<-x[1], x[2], 1>> ELSE <<-x[1], x[2]>>

RSub(x, y) == RAdd(x, RNeg(y))

RMul(x, y) ==
    IF IsTiny(x) /\ ~IsTiny(y)
    THEN (IF y = Zero \/ y = Infinity THEN y ELSE Tiny(QMul(Coef(x), y)))
    ELSE IF IsTiny(y) /\ ~IsTiny(x)
    THEN (IF x = Zero \/ x = Infinity THEN x ELSE Tiny(QMul(x, Coef(y))))
    ELSE QMul(x, y)

RDiv(x, y) ==
    IF IsTiny(x) /\ ~IsTiny(y)
    THEN (IF y = Zero
          THEN (IF x[1] > 0 THEN Infinity ELSE RNeg(Infinity))
          ELSE Tiny(QMul(Coef(x), Norm(y[2], y[1]))))
    ELSE QMul(x, Norm(y[2], y[1]))

RLt(x, y) ==
    IF IsTiny(x) /\ IsTiny(y) THEN x[1] * y[2] < y[1] * x[2]
    ELSE IF IsTiny(x) THEN (IF y[1] # 0 THEN y[1] > 0 ELSE x[1] < 0)
    ELSE IF IsTiny(y) THEN (IF x[1] # 0 THEN x[1] < 0 ELSE y[1] > 0)
    ELSE x[1] * y[2] < y[1] * x[2]

RLe(x, y) ==
    IF IsTiny(x) \/ IsTiny(y) THEN ~RLt(y, x)
    ELSE x[1] * y[2] <= y[1] * x[2]

RGt(x, y) == RLt(y, x)

IsWhole(x) == ~IsTiny(x) /\ x[2] = 1

\* Math.pow(base, n) for a natural exponent n
RECURSIVE Pow(_, _)
Pow(base, n) == IF n = 0 THEN R(1) ELSE RMul(base, Pow(base, n - 1))

\* Math.round(x * 100) / 100: Math.round rounds half towards +Infinity
Round2(x) ==
    IF IsTiny(x) THEN Zero
    ELSE IF x[2] = 0 THEN x
    ELSE LET whole == x[1] \div x[2]
             cents == (x[1] % x[2]) * 100
             half == IF 2 * (cents % x[2]) >= x[2] THEN 1 ELSE 0
         IN  Norm(whole * 100 + cents \div x[2] + half, 100)

(***************************************************************************)
(* LoanInput and its bounded grid.                                         *)
(***************************************************************************)
InterestTypes == {"daily", "monthly_flat", "reducing_balance"}

TenorUnits == {"days", "months"}

Amounts == {R(i) : i \in -1 .. MaxAmount}

\* percent per period: 0.01, 0.05 and 0.0833.. (daily products), 1 .. 4 (monthly)
\* TinyRate: 1e-20 percent, a positive rate that passes validation
TinyRate == <<1, 1, 1>>

Rates ==
    {R(-1), R(0), TinyRate, <<1, 100>>, <<1, 20>>, <<1, 12>>, R(1), R(2), R(3), R(4)}

Tenors == {R(i) : i \in (0 .. MaxTenor) \cup {7, 30}}

Fees == {R(i) : i \in -1 .. MaxFee}

Incomes == {R(i) : i \in (0 .. MaxIncome) \cup {10}}

LenderNames == {"Lender A", "Lender B"}

LoanInput ==
    [amount : Amounts, interestRate : Rates, interestType : InterestTypes,
     tenor : Tenors, tenorUnit : TenorUnits, adminFee : Fees,
     monthlyIncome : Incomes, lenderName : LenderNames]

TenorInMonths(in) ==
    IF in.tenorUnit = "months" THEN in.tenor ELSE RDiv(in.tenor, R(30))

InDomain(in) ==
    in.interestType = "reducing_balance" =>
        /\ IsWhole(in.interestRate) \/ IsTiny(in.interestRate)
        /\ IsWhole(TenorInMonths(in))
        /\ TenorInMonths(in)[1] <= MaxTenor

(***************************************************************************)
(* LoanCalculator: private helpers.                                        *)
(***************************************************************************)
NoError == "none"

\* validateInput: the message of the first failing check, NoError if none
ValidateInputSwapped(in) ==
    IF RLe(in.interestRate, Zero) THEN "Suku bunga harus lebih dari 0"
    ELSE IF RLe(in.amount, Zero) THEN "Jumlah pinjaman harus lebih dari 0"
    ELSE IF RLe(in.tenor, Zero) THEN "Tenor harus lebih dari 0"
    ELSE IF RLe(in.monthlyIncome, Zero) THEN "Gaji bulanan harus lebih dari 0"
    ELSE IF RLt(in.adminFee, Zero) THEN "Biaya admin tidak boleh negatif"
    ELSE NoError

ValidateInputSameMessage(in) ==
    IF RLe(in.amount, Zero) THEN "Jumlah pinjaman harus lebih dari 0"
    ELSE IF RLe(in.interestRate, Zero) THEN "Suku bunga harus lebih dari 0"
    ELSE IF RLe(in.tenor, Zero) THEN "Tenor harus lebih dari 0"
    ELSE IF RLe(in.monthlyIncome, Zero) THEN "Gaji bulanan harus lebih dari 0"
    ELSE IF RLt(in.adminFee, Zero) THEN "Input tidak valid"
    ELSE NoError

ValidateInputZeroRate(in) ==
    IF RLe(in.amount, Zero) THEN "Jumlah pinjaman harus lebih dari 0"
    ELSE IF RLt(in.interestRate, Zero) THEN "Suku bunga harus lebih dari 0"
    ELSE IF RLe(in.tenor, Zero) THEN "Tenor harus lebih dari 0"
    ELSE IF RLe(in.monthlyIncome, Zero) THEN "Gaji bulanan harus lebih dari 0"
    ELSE IF RLt(in.adminFee, Zero) THEN "Biaya admin tidak boleh negatif"
    ELSE NoError

ValidateInput(in) ==
    IF RLe(in.amount, Zero) THEN "Jumlah pinjaman harus lebih dari 0"
    ELSE IF RLe(in.interestRate, Zero) THEN "Suku bunga harus lebih dari 0"
    ELSE IF RLe(in.tenor, Zero) THEN "Tenor harus lebih dari 0"
    ELSE IF RLe(in.monthlyIncome, Zero) THEN "Gaji bulanan harus lebih dari 0"
    ELSE IF RLt(in.adminFee, Zero) THEN "Biaya admin tidak boleh negatif"
    ELSE NoError

CalculateDailyInterestNoUnit(principal, dailyRate, tenor, tenorUnit) ==
    LET dailyRateDecimal == RDiv(dailyRate, R(100))
    IN  RMul(RMul(principal, dailyRateDecimal), tenor)

CalculateDailyInterest(principal, dailyRate, tenor, tenorUnit) ==
    LET dailyRateDecimal == RDiv(dailyRate, R(100))
        tenorInDays == IF tenorUnit = "days" THEN tenor ELSE RMul(tenor, R(30))
    IN  RMul(RMul(principal, dailyRateDecimal), tenorInDays)

CalculateMonthlyFlatInterest(principal, monthlyRate, tenorInMonths) ==
    LET monthlyRateDecimal == RDiv(monthlyRate, R(100))
    IN  RMul(RMul(principal, monthlyRateDecimal), tenorInMonths)

CalculateReducingBalanceInterest(principal, monthlyRate, tenorInMonths, adminFee) ==
    LET monthlyRateDecimal == RDiv(monthlyRate, R(100))
        growth == Pow(RAdd(R(1), monthlyRateDecimal), tenorInMonths[1])
        numerator == RMul(monthlyRateDecimal, growth)
        denominator == RSub(growth, R(1))
        monthlyInstallmentPrincipal == RDiv(RMul(principal, numerator), denominator)
    IN  IF monthlyRateDecimal = Zero
        THEN [monthlyInstallment |-> RDiv(RAdd(principal, adminFee), tenorInMonths),
              totalInterest |-> Zero]
        ELSE [monthlyInstallment |->
                  RAdd(monthlyInstallmentPrincipal, RDiv(adminFee, tenorInMonths)),
              totalInterest |->
                  RSub(RMul(monthlyInstallmentPrincipal, tenorInMonths), principal)]

(***************************************************************************)
(* LoanCalculator.calculateMetrics: the unrounded locals.                  *)
(***************************************************************************)
TotalInterest(in) ==
    IF in.interestType = "daily"
    THEN CalculateDailyInterest(in.amount, in.interestRate, in.tenor, in.tenorUnit)
    ELSE IF in.interestType = "monthly_flat"
    THEN CalculateMonthlyFlatInterest(in.amount, in.interestRate, TenorInMonths(in))
    ELSE CalculateReducingBalanceInterest(in.amount, in.interestRate,
             TenorInMonths(in), in.adminFee).totalInterest

EffectiveApr360(in) ==
    IF in.interestType = "daily"
    THEN RMul(RMul(RDiv(in.interestRate, R(100)), R(360)), R(100))
    ELSE RMul(RMul(RDiv(in.interestRate, R(100)), R(12)), R(100))

EffectiveAprPerTenor(in) ==
    IF in.interestType = "daily"
    THEN RMul(RMul(RDiv(in.interestRate, R(100)), R(365)), R(100))
    ELSE IF in.interestType = "monthly_flat"
    THEN RMul(RMul(RDiv(in.interestRate, R(100)), R(12)), R(100))
    ELSE RMul(RMul(RDiv(in.interestRate, R(100)), RDiv(R(12), in.tenor)), R(100))

EffectiveApr(in) ==
    IF in.interestType = "daily"
    THEN RMul(RMul(RDiv(in.interestRate, R(100)), R(365)), R(100))
    ELSE RMul(RMul(RDiv(in.interestRate, R(100)), R(12)), R(100))

MonthlyInstallment(in) ==
    LET gross == RAdd(RAdd(in.amount, TotalInterest(in)), in.adminFee)
        tenorInMonths == TenorInMonths(in)
    IN  IF in.interestType = "daily"
        THEN RDiv(gross, IF tenorInMonths = Zero THEN R(1) ELSE tenorInMonths)
        ELSE IF in.interestType = "monthly_flat"
        THEN RDiv(gross, tenorInMonths)
        ELSE CalculateReducingBalanceInterest(in.amount, in.interestRate,
                 tenorInMonths, in.adminFee).monthlyInstallment

TotalRepayment(in) == RAdd(RAdd(in.amount, TotalInterest(in)), in.adminFee)

DtiRatio(in) == RMul(RDiv(MonthlyInstallment(in), in.monthlyIncome), R(100))

(***************************************************************************)
(* LoanCalculator.calculateMetrics: risk score and risk level.             *)
(***************************************************************************)
\* Factor 1: OJK registration
LegalityPointsBoth(isOjkRegistered) == IF ~isOjkRegistered THEN 50 ELSE 5

LegalityPoints(isOjkRegistered) == IF ~isOjkRegistered THEN 50 ELSE 0

\* Factor 2: debt-to-income ratio
DtiPointsSevere(dtiRatio) ==
    IF RGt(dtiRatio, R(40)) THEN 75
    ELSE IF RGt(dtiRatio, R(30)) THEN 15
    ELSE 0

DtiPoints(dtiRatio) ==
    IF RGt(dtiRatio, R(40)) THEN 30
    ELSE IF RGt(dtiRatio, R(30)) THEN 15
    ELSE 0

\* Factor 3: effective APR
AprPointsInclusive(effectiveApr) ==
    IF RLe(R(36), effectiveApr) THEN 30
    ELSE IF RGt(effectiveApr, R(20)) THEN 10
    ELSE 0

AprPoints(effectiveApr) ==
    IF RGt(effectiveApr, R(36)) THEN 30
    ELSE IF RGt(effectiveApr, R(20)) THEN 10
    ELSE 0

RiskScore(in, isOjkRegistered) ==
    LegalityPoints(isOjkRegistered) + DtiPoints(DtiRatio(in))
        + AprPoints(EffectiveApr(in))

RiskLevelStrict(riskScore) ==
    IF riskScore > 75 THEN "Sangat Berbahaya"
    ELSE IF riskScore >= 50 THEN "Tinggi"
    ELSE IF riskScore >= 25 THEN "Sedang"
    ELSE "Rendah"

RiskLevelLowTop(riskScore) ==
    IF riskScore >= 60 THEN "Sangat Berbahaya"
    ELSE IF riskScore >= 50 THEN "Tinggi"
    ELSE IF riskScore >= 25 THEN "Sedang"
    ELSE "Rendah"

RiskLevel(riskScore) ==
    IF riskScore >= 75 THEN "Sangat Berbahaya"
    ELSE IF riskScore >= 50 THEN "Tinggi"
    ELSE IF riskScore >= 25 THEN "Sedang"
    ELSE "Rendah"

(***************************************************************************)
(* LoanCalculator.calculateMetrics: what a call hands to its caller, a     *)
(* returned LoanMetrics or a thrown Error.                                 *)
(***************************************************************************)
Thrown(message) == [kind |-> "throw", name |-> "Error", message |-> message]

CalculateMetrics(in, isOjkRegistered) ==
    IF ValidateInput(in) # NoError
    THEN Thrown(ValidateInput(in))
    ELSE [kind |-> "return",
          totalRepayment |-> Round2(TotalRepayment(in)),
          monthlyInstallment |-> Round2(MonthlyInstallment(in)),
          effectiveApr |-> Round2(EffectiveApr(in)),
          dtiRatio |-> Round2(DtiRatio(in)),
          riskScore |-> RiskScore(in, isOjkRegistered),
          riskLevel |-> RiskLevel(RiskScore(in, isOjkRegistered))]

(***************************************************************************)
(* The calculator applied to one input of the grid: out[b] is what the     *)
(* call calculateMetrics(input, b) handed back, NotCalled before it.       *)
(***************************************************************************)
NotCalled == [kind |-> "none"]

\* the worked daily-interest scenario: 1,000,000 at 1% per day for 30 days
ScenarioDaily ==
    [amount |-> R(1000000), interestRate |-> R(1), interestType |-> "daily",
     tenor |-> R(30), tenorUnit |-> "days", adminFee |-> R(50000),
     monthlyIncome |-> R(5000000), lenderName |-> "Lender A"]

Inputs == {in \in LoanInput : InDomain(in)} \cup {ScenarioDaily}

Null == [kind |-> "null"]

\* the signals of App as its field initialisers leave them
AppInit ==
    /\ hasResult = FALSE
    /\ showEmptyState = TRUE
    /\ currentMetrics = Null
    /\ currentInput = Null
    /\ isOjkRegisteredSignal = FALSE
    /\ aiExplanation = ""
    /\ isAiLoading = FALSE
    /\ hasAiError = FALSE
    /\ calls = <<>>
    /\ lastHandler = [name |-> "none", call |-> 0]
    /\ explainedCall = 0

\* CACHE_DURATION and the endpoints of ojkCache
CACHE_DURATION == 12 * 60 * 60 * 1000

Endpoints == {"apps", "illegals"}

\* the cache store as declared, the backend clock well past the epoch
CacheInit ==
    /\ ojkCache = [e \in Endpoints |-> [data |-> Null, timestamp |-> 0]]
    /\ now = CACHE_DURATION
    /\ ticks = 0
    /\ fetches = <<>>
    /\ newest = [e \in Endpoints |-> 0]
    /\ cacheEvent = [name |-> "none"]

\* a numeric control that holds a number
Num(x) == [kind |-> "number", value |-> x]

\* this.fb.group({...}): the initial value of each control
FormInitial ==
    [lenderName |-> <<>>, monthlyIncome |-> Num(R(0)), amount |-> Num(R(0)),
     adminFee |-> Num(R(0)), interestRate |-> Num(R(0)), interestType |-> "daily",
     tenor |-> Num(R(0)), tenorUnit |-> "months"]

\* the term distinctUntilChanged compares with before the first emission
NoTerm == [kind |-> "none"]

Term(chars) == [kind |-> "term", chars |-> chars]

\* LoanForm as its field initialisers leave it
FormInit ==
    /\ form = FormInitial
    /\ formTouched = FALSE
    /\ formIsLoading = FALSE
    /\ verificationStatus = "none"
    /\ isVerifying = FALSE
    /\ debouncePending = NoTerm
    /\ lastTerm = NoTerm
    /\ verifications = <<>>
    /\ statusFor = NoTerm
    /\ formEvent = [name |-> "none"]

\* MultimodalChat as its field initialisers leave it, nothing posted yet
ChatInit ==
    /\ conversationHistory = <<>>
    /\ messageInput = <<>>
    /\ chatIsLoading = FALSE
    /\ errorMessage = ""
    /\ selectedFile = Null
    /\ chatRequests = <<>>
    /\ chatResponses = <<>>
    /\ chatSends = 0
    /\ chatEvent = [name |-> "none"]

\* the /api/verify-lender handler before any request
LenderIdle ==
    /\ ojk = [apps |-> <<>>, illegals |-> <<>>]
    /\ vlPc = "idle"
    /\ vlBody = Null
    /\ vlApps = Null
    /\ vlResponse = Null

\* the components other than LoanCalculator, App and the cache
RestIdle == LenderIdle /\ FormInit /\ ChatInit

Init ==
    /\ input \in Inputs
    /\ out = [b \in BOOLEAN |-> NotCalled]
    /\ AppInit
    /\ CacheInit
    /\ RestIdle

Calculate(isOjkRegistered) ==
    /\ out' = [out EXCEPT ![isOjkRegistered] = CalculateMetrics(input, isOjkRegistered)]
    /\ UNCHANGED <<input, notCalc>>

Next == \E isOjkRegistered \in BOOLEAN : Calculate(isOjkRegistered)

Spec == Init /\ [][Next]_vars

TypeOK ==
    /\ input \in Inputs
    /\ \A b \in BOOLEAN : out[b].kind \in {"none", "throw", "return"}

(***************************************************************************)
(* App.analyzeLoan and the two HTTP services it chains.  Every call starts *)
(* a subscription of its own; a later call does not cancel an earlier one. *)
(* A call waits for the verification response ("verifying"), then for the  *)
(* explanation ("explaining"), and ends "explained", "aiFailed" or         *)
(* "calcFailed".  The callbacks of one response run in one step.           *)
(***************************************************************************)
\* the inputs handed to analyzeLoan, in the units of the grid: a daily loan
\* of 1 at 1% per day for 30 days against an income of 10, ...
LoanDaily ==
    [amount |-> R(1), interestRate |-> R(1), interestType |-> "daily",
     tenor |-> R(30), tenorUnit |-> "days", adminFee |-> R(0),
     monthlyIncome |-> R(10), lenderName |-> "Lender A"]

\* ... a monthly_flat loan of 2 at 3% over 2 months from another lender, ...
LoanFlat ==
    [amount |-> R(2), interestRate |-> R(3), interestType |-> "monthly_flat",
     tenor |-> R(2), tenorUnit |-> "months", adminFee |-> R(0),
     monthlyIncome |-> R(3), lenderName |-> "Lender B"]

\* ... and an input validateInput rejects (amount 0)
LoanRejected == [LoanDaily EXCEPT !.amount = R(0)]

AppInputs == {LoanDaily, LoanFlat, LoanRejected}

\* ChatResponse.result: empty or a text
Results == {"", "Penjelasan pinjaman"}

\* OjkValidator.verify: the value emitted when the request fails
VerifyFallbackTrue == TRUE

VerifyFallback == FALSE

\* AiClient.requestExplanation: map((res) => res.result || '...')
ExplanationOf(result) ==
    IF result = "" THEN "Gagal menghasilkan penjelasan" ELSE result

\* LoanCalculator before any call
CalcIdle ==
    /\ input = ScenarioDaily
    /\ out = [b \in BOOLEAN |-> NotCalled]

InitApp ==
    /\ CalcIdle
    /\ AppInit
    /\ CacheInit
    /\ RestIdle

AnalyzeLoan(in) ==
    /\ Len(calls) < MaxCalls
    /\ currentInput' = in
    /\ isAiLoading' = TRUE
    /\ hasAiError' = FALSE
    /\ aiExplanation' = ""
    /\ calls' = Append(calls, [input |-> in, stage |-> "verifying",
                               verifyFailed |-> FALSE, ojkStatus |-> FALSE,
                               metrics |-> Null])
    /\ lastHandler' = [name |-> "analyzeLoan", call |-> Len(calls) + 1]
    /\ explainedCall' = 0
    /\ UNCHANGED <<notApp, hasResult, showEmptyState, currentMetrics,
                   isOjkRegisteredSignal>>

\* this.calculator.calculateMetrics(input, ojkStatus) on the inputs of App
MetricsOf ==
    [in \in AppInputs, ojkStatus \in BOOLEAN |-> CalculateMetrics(in, ojkStatus)]

\* tap, then switchMap or the error callback with finalize, for the value
\* ojkStatus that verify emits to call i
OnOjkStatus(i, ojkStatus, failed) ==
    \E metrics \in {MetricsOf[calls[i].input, ojkStatus]} :
        IF metrics.kind = "throw"
        THEN /\ hasAiError' = TRUE
             /\ isAiLoading' = FALSE
             /\ calls' = [calls EXCEPT ![i].stage = "calcFailed",
                                       ![i].verifyFailed = failed,
                                       ![i].ojkStatus = ojkStatus]
             /\ UNCHANGED <<hasResult, showEmptyState, currentMetrics,
                            isOjkRegisteredSignal>>
        ELSE /\ isOjkRegisteredSignal' = ojkStatus
             /\ currentMetrics' = metrics
             /\ hasResult' = TRUE
             /\ showEmptyState' = FALSE
             /\ calls' = [calls EXCEPT ![i].stage = "explaining",
                                       ![i].verifyFailed = failed,
                                       ![i].ojkStatus = ojkStatus,
                                       ![i].metrics = metrics]
             /\ UNCHANGED <<hasAiError, isAiLoading>>

VerifyResponds(i, isRegistered) ==
    /\ calls[i].stage = "verifying"
    /\ OnOjkStatus(i, isRegistered, FALSE)
    /\ lastHandler' = [name |-> "verifyResponds", call |-> i]
    /\ UNCHANGED <<notApp, currentInput, aiExplanation, explainedCall>>

VerifyFails(i) ==
    /\ calls[i].stage = "verifying"
    /\ OnOjkStatus(i, VerifyFallback, TRUE)
    /\ lastHandler' = [name |-> "verifyFails", call |-> i]
    /\ UNCHANGED <<notApp, currentInput, aiExplanation, explainedCall>>

ExplanationArrives(i, result) ==
    /\ calls[i].stage = "explaining"
    /\ aiExplanation' = ExplanationOf(result)
    /\ isAiLoading' = FALSE
    /\ calls' = [calls EXCEPT ![i].stage = "explained"]
    /\ lastHandler' = [name |-> "explanationArrives", call |-> i]
    /\ explainedCall' = i
    /\ UNCHANGED <<notApp, hasResult, showEmptyState, currentMetrics,
                   currentInput, isOjkRegisteredSignal, hasAiError>>

ExplanationFailsNoFinalize(i) ==
    /\ calls[i].stage = "explaining"
    /\ hasAiError' = TRUE
    /\ calls' = [calls EXCEPT ![i].stage = "aiFailed"]
    /\ lastHandler' = [name |-> "explanationFails", call |-> i]
    /\ UNCHANGED <<notApp, hasResult, showEmptyState, currentMetrics,
                   currentInput, isOjkRegisteredSignal, aiExplanation,
                   isAiLoading, explainedCall>>

ExplanationFails(i) ==
    /\ calls[i].stage = "explaining"
    /\ hasAiError' = TRUE
    /\ isAiLoading' = FALSE
    /\ calls' = [calls EXCEPT ![i].stage = "aiFailed"]
    /\ lastHandler' = [name |-> "explanationFails", call |-> i]
    /\ UNCHANGED <<notApp, hasResult, showEmptyState, currentMetrics,
                   currentInput, isOjkRegisteredSignal, aiExplanation, explainedCall>>

NextApp ==
    \/ \E in \in AppInputs : AnalyzeLoan(in)
    \/ \E i \in 1 .. Len(calls) : \E isRegistered \in BOOLEAN :
           VerifyResponds(i, isRegistered)
    \/ \E i \in 1 .. Len(calls) : VerifyFails(i)
    \/ \E i \in 1 .. Len(calls) : \E result \in Results :
           ExplanationArrives(i, result)
    \/ \E i \in 1 .. Len(calls) : ExplanationFails(i)

SpecApp == InitApp /\ [][NextApp]_vars

\* a request in flight gets its response or its failure
Respond ==
    \E i \in 1 .. Len(calls) :
        \/ \E isRegistered \in BOOLEAN : VerifyResponds(i, isRegistered)
        \/ VerifyFails(i)
        \/ \E result \in Results : ExplanationArrives(i, result)
        \/ ExplanationFails(i)

\* App when every HTTP request eventually completes or fails
SpecAppFair == InitApp /\ [][NextApp]_vars /\ WF_vars(Respond)

Stages == {"verifying", "explaining", "explained", "aiFailed", "calcFailed"}

TypeOKApp ==
    /\ hasResult \in BOOLEAN /\ showEmptyState \in BOOLEAN
    /\ isOjkRegisteredSignal \in BOOLEAN /\ isAiLoading \in BOOLEAN
    /\ hasAiError \in BOOLEAN
    /\ currentInput \in AppInputs \cup {Null}
    /\ currentMetrics.kind \in {"null", "return"}
    /\ aiExplanation \in {"", "Gagal menghasilkan penjelasan"} \cup Results
    /\ Len(calls) <= MaxCalls
    /\ \A i \in 1 .. Len(calls) :
          calls[i].input \in AppInputs /\ calls[i].stage \in Stages

(***************************************************************************)
(* Backend: getOjkDataWithCache(endpoint).  A call reads the clock, then   *)
(* either returns the cached list at once or awaits fetchWithTimeout;      *)
(* other calls run while it waits.                                         *)
(***************************************************************************)
\* lists the upstream API serves for an endpoint
Array(items) == [kind |-> "array", items |-> items]

Lists == {Array(<<>>), Array(<<"Lender A">>)}

\* bodies of an OK response: with json.data[endpoint], or without json.data
NoData == [kind |-> "nodata"]

Bodies == {NoData} \cup {[kind |-> "json", list |-> l] : l \in Lists}

\* the ways the fetch can fail: non-OK status, rejected fetch, abort at
\* FETCH_TIMEOUT, a body that is not JSON
Failures == {"status", "exception", "timeout", "badJson"}

\* the clock advances by a millisecond or by about CACHE_DURATION
ClockSteps == {1, CACHE_DURATION - 1}

\* json.data?.[endpoint] || []
DataOf(json) == IF json = NoData THEN Array(<<>>) ELSE json.list

\* ojkCache[cacheKey].data && now - ojkCache[cacheKey].timestamp < CACHE_DURATION
CacheValid(entry, at) ==
    entry.data # Null /\ at - entry.timestamp < CACHE_DURATION

\* ojkCache[cacheKey].data || []
StaleOrEmpty(entry) == IF entry.data = Null THEN Array(<<>>) ELSE entry.data

Without(seq, i) == SubSeq(seq, 1, i - 1) \o SubSeq(seq, i + 1, Len(seq))

InitCache ==
    /\ CalcIdle
    /\ AppInit
    /\ CacheInit
    /\ RestIdle

Tick(d) ==
    /\ ticks < MaxTicks
    /\ now' = now + d
    /\ ticks' = ticks + 1
    /\ cacheEvent' = [name |-> "tick"]
    /\ UNCHANGED <<notCache, ojkCache, fetches, newest>>

\* the call returns the cached list without awaiting
CacheHit(endpoint) ==
    /\ CacheValid(ojkCache[endpoint], now)
    /\ cacheEvent' = [name |-> "hit", endpoint |-> endpoint,
                      value |-> ojkCache[endpoint].data]
    /\ UNCHANGED <<notCache, ojkCache, now, ticks, fetches, newest>>

\* the call issues the upstream request and awaits it
CacheMiss(endpoint) ==
    /\ ~CacheValid(ojkCache[endpoint], now)
    /\ Len(fetches) < MaxFetches
    /\ fetches' = Append(fetches, [endpoint |-> endpoint, now |-> now])
    /\ cacheEvent' = [name |-> "miss", endpoint |-> endpoint]
    /\ UNCHANGED <<notCache, ojkCache, now, ticks, newest>>

\* the awaited response is OK and its body parses: the cache is updated
FetchSucceeds(i, json) ==
    LET f == fetches[i]
        entry == [data |-> DataOf(json), timestamp |-> f.now]
    IN  /\ ojkCache' = [ojkCache EXCEPT ![f.endpoint] = entry]
        /\ newest' = [newest EXCEPT ![f.endpoint] =
                          IF f.now > @ THEN f.now ELSE @]
        /\ fetches' = Without(fetches, i)
        /\ cacheEvent' = [name |-> "fetched", endpoint |-> f.endpoint,
                          value |-> entry.data]
        /\ UNCHANGED <<notCache, now, ticks>>

\* the catch block: stale data if available, otherwise an empty array
FetchFailsNegativeCache(i, failure) ==
    LET f == fetches[i]
    IN  /\ ojkCache' = [ojkCache EXCEPT ![f.endpoint] =
                            [data |-> StaleOrEmpty(@), timestamp |-> f.now]]
        /\ fetches' = Without(fetches, i)
        /\ cacheEvent' = [name |-> "failed", endpoint |-> f.endpoint,
                          value |-> StaleOrEmpty(ojkCache[f.endpoint]),
                          before |-> ojkCache[f.endpoint]]
        /\ UNCHANGED <<notCache, now, ticks, newest>>

FetchFails(i, failure) ==
    LET f == fetches[i]
    IN  /\ fetches' = Without(fetches, i)
        /\ cacheEvent' = [name |-> "failed", endpoint |-> f.endpoint,
                          value |-> StaleOrEmpty(ojkCache[f.endpoint]),
                          before |-> ojkCache[f.endpoint]]
        /\ UNCHANGED <<notCache, ojkCache, now, ticks, newest>>

NextCache ==
    \/ \E d \in ClockSteps : Tick(d)
    \/ \E endpoint \in Endpoints : CacheHit(endpoint)
    \/ \E endpoint \in Endpoints : CacheMiss(endpoint)
    \/ \E i \in 1 .. Len(fetches) : \E json \in Bodies : FetchSucceeds(i, json)
    \/ \E i \in 1 .. Len(fetches) : \E failure \in Failures : FetchFails(i, failure)

SpecCache == InitCache /\ [][NextCache]_vars

TypeOKCache ==
    /\ now >= CACHE_DURATION /\ ticks \in 0 .. MaxTicks
    /\ Len(fetches) <= MaxFetches
    /\ \A e \in Endpoints :
          /\ ojkCache[e].data \in Lists \cup {Null}
          /\ ojkCache[e].timestamp <= now
          /\ newest[e] <= now

(***************************************************************************)
(* POST /api/verify-lender of the backend.  A string is a sequence of      *)
(* one-character strings, so that toLowerCase, trim, replace and includes  *)
(* are computed; "A", "B" are the upper-case letters and " " the only      *)
(* whitespace.  An entry of the OJK lists keeps the fields the handler     *)
(* matches on (name, alias); owner, url and description are copied to the  *)
(* response unread and are left out.                                       *)
(***************************************************************************)
RECURSIVE ToLowerCase(_)
ToLowerCase(s) ==
    IF s = <<>> THEN <<>>
    ELSE <<CASE Head(s) = "A" -> "a" [] Head(s) = "B" -> "b" [] OTHER -> Head(s)>>
         \o ToLowerCase(Tail(s))

RECURSIVE TrimStart(_)
TrimStart(s) == IF s # <<>> /\ Head(s) = " " THEN TrimStart(Tail(s)) ELSE s

RECURSIVE TrimEnd(_)
TrimEnd(s) ==
    IF s # <<>> /\ s[Len(s)] = " " THEN TrimEnd(SubSeq(s, 1, Len(s) - 1)) ELSE s

Trim(s) == TrimEnd(TrimStart(s))

\* s.replace(/\s+/g, " ")
RECURSIVE CollapseSpaces(_)
CollapseSpaces(s) ==
    IF Len(s) < 2 THEN s
    ELSE IF s[1] = " " /\ s[2] = " " THEN CollapseSpaces(Tail(s))
    ELSE <<s[1]>> \o CollapseSpaces(Tail(s))

\* s.includes(t)
Includes(s, t) ==
    \E i \in 0 .. Len(s) - Len(t) : SubSeq(s, i + 1, i + Len(t)) = t

StringValue(chars) == [kind |-> "string", chars |-> chars]

Undefined == [kind |-> "undefined"]

NumberValue == [kind |-> "number"]

\* the lender names a client posts
LenderNameTexts ==
    {<<>>, <<" ">>, <<"a">>, <<"A">>, <<"b">>, <<"c">>, <<"a", "b">>,
     <<" ", "a", " ">>, <<"A", " ", " ", "b">>}

LenderNameValues == {StringValue(t) : t \in LenderNameTexts} \cup {Undefined, NumberValue}

AppEntry(name) == [name |-> name]

IllegalEntry(name, alias) == [name |-> name, alias |-> alias]

OjkApps ==
    {<<>>, <<AppEntry(<<"a">>)>>, <<AppEntry(<<"A", " ", "b">>)>>,
     <<AppEntry(<<"b">>), AppEntry(<<"a">>)>>}

OjkIllegals ==
    {<<>>, <<IllegalEntry(<<"a">>, Null)>>,
     <<IllegalEntry(<<"c">>, Array(<<<<"A">>>>))>>,
     <<IllegalEntry(<<"b">>, Array(<<>>))>>}

\* what a fetch of an OJK list can come to
FetchOutcomes == {"ok", "noData", "notOk", "throws"}

\* !lenderName || typeof lenderName !== "string"
LenderNameRejected(lenderName) ==
    lenderName.kind # "string" \/ lenderName.chars = <<>>

NormalizedSearch(lenderName) == CollapseSpaces(Trim(ToLowerCase(lenderName)))

NameMatch(name, normalizedSearch) ==
    \/ Includes(ToLowerCase(name), normalizedSearch)
    \/ Includes(normalizedSearch, ToLowerCase(name))

IllegalMatch(illegal, normalizedSearch) ==
    \/ NameMatch(illegal.name, normalizedSearch)
    \/ /\ illegal.alias # Null
       /\ \E k \in 1 .. Len(illegal.alias.items) :
             NameMatch(illegal.alias.items[k], normalizedSearch)

\* Array.prototype.find on the indices that satisfy the predicate
First(hits, list) ==
    IF hits = {} THEN Null
    ELSE list[CHOOSE i \in hits : \A j \in hits : i <= j]

MatchingApp(apps, normalizedSearch) ==
    First({i \in 1 .. Len(apps) : NameMatch(apps[i].name, normalizedSearch)}, apps)

MatchingIllegal(illegals, normalizedSearch) ==
    First({i \in 1 .. Len(illegals) : IllegalMatch(illegals[i], normalizedSearch)},
          illegals)

BadRequest == [status |-> 400, body |-> [error |-> "Lender name is required (string)"]]

OjkUnavailable ==
    [status |-> 500,
     body |-> [error |-> "Gagal memeriksa data OJK", isRegistered |-> FALSE,
               details |-> "OJK API tidak tersedia"]]

VerifyError == [status |-> 500, body |-> [error |-> "Gagal memverifikasi lender"]]

Registered(matchingApp) ==
    [status |-> 200,
     body |-> [isRegistered |-> TRUE, lenderName |-> matchingApp.name,
               message |-> "Lender terdaftar di OJK"]]

Illegal(matchingIllegal) ==
    [status |-> 200,
     body |-> [isRegistered |-> FALSE, isIllegal |-> TRUE,
               lenderName |-> matchingIllegal.name,
               message |-> "WARNING: Lender telah dinyatakan ILEGAL oleh OJK"]]

NotFound(lenderName) ==
    [status |-> 200,
     body |-> [isRegistered |-> FALSE, isIllegal |-> FALSE, lenderName |-> lenderName,
               message |-> "Lender tidak ditemukan dalam data OJK. Verifikasi lebih lanjut diperlukan."]]

\* the checks of the illegal list and the answer when nothing matches
IllegalOrNotFound(illegals, lenderName) ==
    LET matchingIllegal == MatchingIllegal(illegals, NormalizedSearch(lenderName))
    IN  IF matchingIllegal # Null THEN Illegal(matchingIllegal)
        ELSE NotFound(lenderName)

\* the cached listing's decision with both lists at hand, illegal list first
DecideIllegalFirst(apps, illegals, lenderName) ==
    LET matchingIllegal == MatchingIllegal(illegals, NormalizedSearch(lenderName))
        matchingApp == MatchingApp(apps, NormalizedSearch(lenderName))
    IN  IF matchingIllegal # Null THEN Illegal(matchingIllegal)
        ELSE IF matchingApp # Null THEN Registered(matchingApp)
        ELSE NotFound(lenderName)

\* the cached listing's decision with both lists at hand
Decide(apps, illegals, lenderName) ==
    LET matchingApp == MatchingApp(apps, NormalizedSearch(lenderName))
    IN  IF matchingApp # Null THEN Registered(matchingApp)
        ELSE IllegalOrNotFound(illegals, lenderName)

InitLender ==
    /\ CalcIdle
    /\ AppInit
    /\ CacheInit
    /\ FormInit
    /\ ChatInit
    /\ ojk \in [apps : OjkApps, illegals : OjkIllegals]
    /\ vlPc = "idle"
    /\ vlBody = Null
    /\ vlApps = Null
    /\ vlResponse = Null

\* backend/index.js: the request arrives; the apps list is fetched first
VerifyLender(lenderName) ==
    /\ vlPc \in {"idle", "done"}
    /\ vlBody' = [lenderName |-> lenderName]
    /\ vlApps' = Null
    /\ IF LenderNameRejected(lenderName)
       THEN vlPc' = "done" /\ vlResponse' = BadRequest
       ELSE vlPc' = "awaitApps" /\ vlResponse' = Null
    /\ UNCHANGED <<notLender, ojk>>

\* the apps fetch settles; a matching app is answered at once
AppsFetched(outcome) ==
    /\ vlPc = "awaitApps"
    /\ CASE outcome = "throws" ->
              vlPc' = "done" /\ vlResponse' = VerifyError /\ UNCHANGED vlApps
         [] outcome = "notOk" ->
              vlPc' = "done" /\ vlResponse' = OjkUnavailable /\ UNCHANGED vlApps
         [] OTHER ->
              \E apps \in {IF outcome = "ok" THEN ojk.apps ELSE <<>>} :
              \E matchingApp \in
                    {MatchingApp(apps, NormalizedSearch(vlBody.lenderName.chars))} :
                 /\ vlApps' = Array(apps)
                 /\ IF matchingApp # Null
                    THEN vlPc' = "done" /\ vlResponse' = Registered(matchingApp)
                    ELSE vlPc' = "awaitIllegals" /\ UNCHANGED vlResponse
    /\ UNCHANGED <<notLender, ojk, vlBody>>

\* the illegals fetch settles; a failed status is read as an empty list
IllegalsFetched(outcome) ==
    /\ vlPc = "awaitIllegals"
    /\ vlPc' = "done"
    /\ vlResponse' =
          IF outcome = "throws" THEN VerifyError
          ELSE IllegalOrNotFound(IF outcome = "ok" THEN ojk.illegals ELSE <<>>,
                                 vlBody.lenderName.chars)
    /\ UNCHANGED <<notLender, ojk, vlBody, vlApps>>

\* the cached listing: both lists are asked of getOjkDataWithCache at once
VerifyLenderCached(lenderName) ==
    /\ vlPc \in {"idle", "done"}
    /\ vlBody' = [lenderName |-> lenderName]
    /\ vlApps' = Null
    /\ IF LenderNameRejected(lenderName)
       THEN vlPc' = "done" /\ vlResponse' = BadRequest
       ELSE vlPc' = "awaitBoth" /\ vlResponse' = Null
    /\ UNCHANGED <<notLender, ojk>>

\* Promise.all settles: getOjkDataWithCache never rejects, it returns the
\* list OJK serves or, after a failed fetch with nothing cached, an empty one
ListsFetched(appsServed, illegalsServed) ==
    /\ vlPc = "awaitBoth"
    /\ vlPc' = "done"
    /\ \E apps \in {IF appsServed THEN ojk.apps ELSE <<>>} :
          /\ vlApps' = Array(apps)
          /\ vlResponse' =
                Decide(apps, IF illegalsServed THEN ojk.illegals ELSE <<>>,
                       vlBody.lenderName.chars)
    /\ UNCHANGED <<notLender, ojk, vlBody>>

NextLender ==
    \/ \E lenderName \in LenderNameValues : VerifyLender(lenderName)
    \/ \E outcome \in FetchOutcomes : AppsFetched(outcome)
    \/ \E outcome \in FetchOutcomes : IllegalsFetched(outcome)
    \/ \E lenderName \in LenderNameValues : VerifyLenderCached(lenderName)
    \/ \E appsServed \in BOOLEAN, illegalsServed \in BOOLEAN :
          ListsFetched(appsServed, illegalsServed)

SpecLender == InitLender /\ [][NextLender]_vars

TypeOKLender ==
    /\ vlPc \in {"idle", "awaitApps", "awaitIllegals", "awaitBoth", "done"}
    /\ vlPc = "done" <=> vlResponse # Null
    /\ vlResponse # Null => vlResponse.status \in {200, 400, 500}

(***************************************************************************)
(* The loan form (components/loan-form/loan-form.ts).  A numeric control   *)
(* holds Null (the field is empty) or Num(x); lenderName is a sequence of  *)
(* characters; interestType and tenorUnit are the option chosen, "" for    *)
(* none.  The validators are those of @angular/forms: required fails on an *)
(* empty value, min and minLength pass on an empty value.  The suggestion  *)
(* list (showSuggestions, suggestions) is display state that no handler    *)
(* modelled here reads, and is left out.                                   *)
(***************************************************************************)
\* Validators.required
Required(value, empty) == value # empty

\* Validators.min(min) with every control accepted
MinNotChecked(value, min) == TRUE

\* Validators.min(min)
Min(value, min) == value = Null \/ ~RLt(value.value, min)

\* Validators.minLength(n)
MinLength(chars, n) == Len(chars) = 0 \/ Len(chars) >= n

\* Number(value) of a numeric control
ToNumber(value) == IF value = Null THEN R(0) ELSE value.value

\* Number(formValue.adminFee || 0)
AdminFeeOf(value) ==
    IF value = Null \/ value.value = R(0) THEN R(0) ELSE value.value

FormLenderNames == {<<>>, <<"a">>, <<"a", "b">>, <<"c", "d">>}

\* the names the autocomplete offers
Suggestions == {<<"a", "b">>, <<"c", "d">>}

FormAmounts == {Null, Num(R(0)), Num(R(1))}

FormRates == {Null, Num(R(0)), Num(<<1, 200>>), Num(<<1, 100>>)}

FormTenors == {Null, Num(R(0)), Num(R(1))}

FormIncomes == {Null, Num(R(0)), Num(R(1))}

FormFees == {Null, Num(R(-1)), Num(R(0))}

FormInterestTypes == {"", "daily", "monthly_flat"}

FormTenorUnits == {"", "months"}

\* this.form.valid
FormValid(f) ==
    /\ Required(f.lenderName, <<>>) /\ MinLength(f.lenderName, 2)
    /\ Required(f.monthlyIncome, Null) /\ Min(f.monthlyIncome, R(1))
    /\ Required(f.amount, Null) /\ Min(f.amount, R(1))
    /\ Min(f.adminFee, R(0))
    /\ Required(f.interestRate, Null) /\ Min(f.interestRate, <<1, 100>>)
    /\ Required(f.interestType, "")
    /\ Required(f.tenor, Null) /\ Min(f.tenor, R(1))
    /\ Required(f.tenorUnit, "")

\* the LoanInput processForm builds from this.form.value
FormValue(f) ==
    [amount |-> ToNumber(f.amount), interestRate |-> ToNumber(f.interestRate),
     interestType |-> f.interestType, tenor |-> ToNumber(f.tenor),
     tenorUnit |-> f.tenorUnit, adminFee |-> AdminFeeOf(f.adminFee),
     monthlyIncome |-> ToNumber(f.monthlyIncome), lenderName |-> f.lenderName]

\* what the POST to /verify-lender can come to: a verdict of the backend, or
\* a failure (an error status of the backend, or no response at all)
VerifyOutcomes(lenderName) ==
    {[ok |-> TRUE, body |-> Registered(AppEntry(lenderName)).body],
     [ok |-> TRUE, body |-> Illegal(IllegalEntry(lenderName, Null)).body],
     [ok |-> TRUE, body |-> NotFound(lenderName).body],
     [ok |-> FALSE, body |-> BadRequest.body],
     [ok |-> FALSE, body |-> OjkUnavailable.body],
     [ok |-> FALSE, body |-> VerifyError.body],
     [ok |-> FALSE, body |-> [error |-> "Unknown Error"]]}

\* OjkValidator.verifyDetailed: what the subscriber's next callback receives
VerifyDetailed(lenderName, outcome) ==
    IF outcome.ok THEN outcome.body
    ELSE [isRegistered |-> FALSE, lenderName |-> lenderName,
          message |-> "Gagal memverifikasi lender. Cek koneksi internet Anda."]

\* the status the next callback of verifyLender sets
StatusOf(response) ==
    IF "isIllegal" \in DOMAIN response /\ response.isIllegal THEN "illegal"
    ELSE IF response.isRegistered THEN "registered"
    ELSE "unregistered"

MaxVerifying == 2

InitFormVerify ==
    /\ CalcIdle /\ AppInit /\ CacheInit /\ LenderIdle /\ ChatInit
    /\ FormInit

\* the user types in the lenderName control: valueChanges, debounceTime(300)
TypeLenderName(chars) ==
    /\ chars # form.lenderName
    /\ form' = [form EXCEPT !.lenderName = chars]
    /\ debouncePending' = Term(chars)
    /\ formEvent' = [name |-> "typed"]
    /\ UNCHANGED <<notForm, formTouched, formIsLoading, verificationStatus,
                   isVerifying, lastTerm, verifications, statusFor>>

\* 300 ms without typing: distinctUntilChanged, tap(status 'none'), switchMap
DebounceFires ==
    /\ debouncePending # NoTerm
    /\ debouncePending' = NoTerm
    /\ IF debouncePending # lastTerm
       THEN verificationStatus' = "none" /\ lastTerm' = debouncePending
       ELSE UNCHANGED <<verificationStatus, lastTerm>>
    /\ formEvent' = [name |-> "debounced"]
    /\ UNCHANGED <<notForm, form, formTouched, formIsLoading, isVerifying,
                   verifications, statusFor>>

\* verifyLender up to the subscription: the request is sent
VerifyLenderSent(lenderName) ==
    /\ Len(verifications) < MaxVerifying
    /\ isVerifying' = TRUE
    /\ verificationStatus' = "none"
    /\ verifications' = Append(verifications, lenderName)

\* setValue(suggestion, { emitEvent: false }), then verifyLender(suggestion)
SelectSuggestion(suggestion) ==
    /\ form' = [form EXCEPT !.lenderName = suggestion]
    /\ VerifyLenderSent(suggestion)
    /\ formEvent' = [name |-> "selectSuggestion"]
    /\ UNCHANGED <<notForm, formTouched, formIsLoading, debouncePending, lastTerm,
                   statusFor>>

\* the Verify button: nothing happens on an empty name
OnVerify ==
    /\ IF form.lenderName # <<>>
       THEN VerifyLenderSent(form.lenderName)
       ELSE UNCHANGED <<isVerifying, verificationStatus, verifications>>
    /\ formEvent' = [name |-> "onVerify"]
    /\ UNCHANGED <<notForm, form, formTouched, formIsLoading, debouncePending,
                   lastTerm, statusFor>>

\* a request settles: verifyDetailed maps a failure to a value, so the next
\* callback of verifyLender runs in either case and the error callback never
VerificationSettles(i, outcome) ==
    /\ verificationStatus' = StatusOf(VerifyDetailed(verifications[i], outcome))
    /\ isVerifying' = FALSE
    /\ statusFor' = Term(verifications[i])
    /\ verifications' = Without(verifications, i)
    /\ formEvent' = [name |-> "verified", outcome |-> outcome]
    /\ UNCHANGED <<notForm, form, formTouched, formIsLoading, debouncePending, lastTerm>>

NextFormVerify ==
    \/ \E chars \in FormLenderNames : TypeLenderName(chars)
    \/ DebounceFires
    \/ \E suggestion \in Suggestions : SelectSuggestion(suggestion)
    \/ OnVerify
    \/ \E i \in 1 .. Len(verifications) :
          \E outcome \in VerifyOutcomes(verifications[i]) : VerificationSettles(i, outcome)

SpecFormVerify == InitFormVerify /\ [][NextFormVerify]_vars

\* the form with a lender name typed in and the debounce run out
InitFormSubmit ==
    /\ CalcIdle /\ AppInit /\ CacheInit /\ LenderIdle /\ ChatInit
    /\ \E chars \in FormLenderNames :
          /\ form = [FormInitial EXCEPT !.lenderName = chars]
          /\ lastTerm = IF chars = <<>> THEN NoTerm ELSE Term(chars)
    /\ formTouched = FALSE
    /\ formIsLoading = FALSE
    /\ verificationStatus = "none"
    /\ isVerifying = FALSE
    /\ debouncePending = NoTerm
    /\ verifications = <<>>
    /\ statusFor = NoTerm
    /\ formEvent = [name |-> "none"]

\* the controls the user sets besides lenderName, and what each can hold
ControlValues ==
    [monthlyIncome |-> FormIncomes, amount |-> FormAmounts, adminFee |-> FormFees,
     interestRate |-> FormRates, interestType |-> FormInterestTypes,
     tenor |-> FormTenors, tenorUnit |-> FormTenorUnits]

\* the user edits a control
SetValue(control, value) ==
    /\ form' = [form EXCEPT ![control] = value]
    /\ formEvent' = [name |-> "setValue"]
    /\ UNCHANGED <<notForm, formTouched, formIsLoading, verificationStatus,
                   isVerifying, debouncePending, lastTerm, verifications, statusFor>>

ProcessForm ==
    /\ IF FormValid(form)
       THEN /\ formIsLoading' = TRUE
            /\ formEvent' = [name |-> "processForm", emitted |-> FormValue(form)]
            /\ UNCHANGED formTouched
       ELSE /\ formTouched' = TRUE
            /\ formEvent' = [name |-> "processForm", emitted |-> Null]
            /\ UNCHANGED formIsLoading
    /\ UNCHANGED <<notForm, form, verificationStatus, isVerifying,
                   debouncePending, lastTerm, verifications, statusFor>>

\* setTimeout(() => this.isLoading.set(false), 500)
LoadingTimeout ==
    /\ formIsLoading
    /\ formIsLoading' = FALSE
    /\ formEvent' = [name |-> "timeout"]
    /\ UNCHANGED <<notForm, form, formTouched, verificationStatus, isVerifying,
                   debouncePending, lastTerm, verifications, statusFor>>

NextFormSubmit ==
    \/ \E control \in DOMAIN ControlValues :
          \E value \in ControlValues[control] : SetValue(control, value)
    \/ ProcessForm
    \/ LoadingTimeout

SpecFormSubmit == InitFormSubmit /\ [][NextFormSubmit]_vars

TypeOKForm ==
    /\ verificationStatus \in {"none", "registered", "illegal", "unregistered"}
    /\ isVerifying \in BOOLEAN /\ formIsLoading \in BOOLEAN /\ formTouched \in BOOLEAN
    /\ Len(verifications) <= MaxVerifying
    /\ form.lenderName \in FormLenderNames

(***************************************************************************)
(* The multimodal chat: the component MultimodalChat, AiClient and the     *)
(* handler of POST /api/chat-multimodal in its two listings.  A JSON text  *)
(* is either one of a few literal texts or the text JSON.stringify makes   *)
(* of a value; JSON.parse reads both.  The preview of a selected image     *)
(* (selectedFilePreview) is display state and is left out.                 *)
(***************************************************************************)
MaxSends == 2

MaxPosts == 2

\* what the user can have in the message box
MessageTexts == {<<>>, <<" ">>, <<" ", "h">>}

\* a file within the 10 MB limit and one beyond it
Files == {[name |-> "slip.png", tooBig |-> FALSE], [name |-> "scan.pdf", tooBig |-> TRUE]}

Literal(chars) == [kind |-> "literal", chars |-> chars]

\* JSON.stringify(value)
Stringify(value) == [kind |-> "stringified", value |-> value]

JsonObject == [kind |-> "object"]

SyntaxError == [ok |-> FALSE]

Parsed(value) == [ok |-> TRUE, value |-> value]

\* JSON.parse(text)
JsonParse(text) ==
    IF text.kind = "stringified" THEN Parsed(text.value)
    ELSE CASE text.chars = "[]" -> Parsed(Array(<<>>))
           [] text.chars = "{}" -> Parsed(JsonObject)
           [] text.chars = "null" -> Parsed(Null)
           [] OTHER -> SyntaxError

Message(role, content) == [role |-> role, content |-> content]

\* the conversationHistory fields a client other than the component posts
PostedHistories ==
    {Undefined, Literal("[]"), Literal("{}"), Literal("null"), Literal("oops"),
     Literal(""),
     Stringify(Array(<<Message("user", <<"h">>), Message("assistant", "Jawaban")>>))}

\* the message fields such a client posts
PostedMessages == {Undefined, StringValue(<<>>), StringValue(<<"h">>)}

\* response.response?.text() of the model; "throws" when the call fails
ModelOutcomes == {"Jawaban", "", "throws"}

SystemPrompt == "Anda adalah penasihat literasi keuangan profesional"

\* !message || typeof message !== "string"
MessageRejected(message) == message.kind # "string" \/ message.chars = <<>>

MessageRequired == [status |-> 400, body |-> [error |-> "Message is required"]]

ChatError == [status |-> 500, body |-> [error |-> "Gagal memproses permintaan multimodal"]]

\* const { conversationHistory = "[]" } = req.body
HistoryField(body) ==
    IF body.conversationHistory = Undefined THEN Literal("[]")
    ELSE body.conversationHistory

\* backend/index.js: let history = []; try { history = JSON.parse(...);
\* if (!Array.isArray(history)) history = []; } catch (e) { log }
ParseHistory(text) ==
    IF JsonParse(text).ok /\ JsonParse(text).value.kind = "array"
    THEN JsonParse(text).value
    ELSE Array(<<>>)

\* the contents array: system prompt, history, current message
Contents(first, history, message, file) ==
    <<[role |-> "user", parts |-> <<first>>]>>
    \o [k \in 1 .. Len(history.items) |->
          [role |-> IF history.items[k].role = "assistant" THEN "model" ELSE "user",
           parts |-> <<[text |-> history.items[k].content]>>]]
    \o <<[role |-> "user",
          parts |-> IF file = Null THEN <<[text |-> message]>>
                    ELSE <<[text |-> message], [inlineData |-> file.name]>>]>>

\* response.response?.text() || fallback, and the 200 response
ChatAnswer(history, message, outcome, fallback) ==
    LET result == IF outcome = "" THEN fallback ELSE outcome
    IN  [status |-> 200,
         body |-> [result |-> result,
                   conversationHistory |->
                      history.items \o <<Message("user", message),
                                         Message("assistant", result)>>]]

InitChat ==
    /\ CalcIdle /\ AppInit /\ CacheInit /\ LenderIdle /\ FormInit
    /\ ChatInit

chatUi == <<conversationHistory, messageInput, chatIsLoading, errorMessage, selectedFile>>

\* [(ngModel)] on the message box
SetMessageInput(text) ==
    /\ text # messageInput
    /\ messageInput' = text
    /\ chatEvent' = [name |-> "input"]
    /\ UNCHANGED <<notChat, conversationHistory, chatIsLoading, errorMessage,
                   selectedFile, chatRequests, chatResponses, chatSends>>

OnFileSelected(file) ==
    /\ IF file.tooBig
       THEN errorMessage' = "File terlalu besar (maks 10MB)" /\ UNCHANGED selectedFile
       ELSE selectedFile' = file /\ errorMessage' = ""
    /\ chatEvent' = [name |-> "fileSelected"]
    /\ UNCHANGED <<notChat, conversationHistory, messageInput, chatIsLoading,
                   chatRequests, chatResponses, chatSends>>

ClearFile ==
    /\ selectedFile # Null
    /\ selectedFile' = Null
    /\ chatEvent' = [name |-> "clearFile"]
    /\ UNCHANGED <<notChat, conversationHistory, messageInput, chatIsLoading,
                   errorMessage, chatRequests, chatResponses, chatSends>>

\* slice(0, -1).map((msg) => ({ role: msg.role, content: msg.content }))
HistoryForApi(hist) ==
    [k \in 1 .. Len(hist) - 1 |-> Message(hist[k].role, hist[k].content)]

\* MultimodalChat.sendMessage with AiClient.multimodalChat up to the POST
SendMessage ==
    \E message \in {Trim(messageInput)} :
    \E userMessage \in {[role |-> "user", content |-> message, file |-> selectedFile]} :
       /\ IF message = <<>> /\ selectedFile = Null
          THEN /\ chatEvent' = [name |-> "sendMessage", sent |-> FALSE,
                                before |-> <<chatUi, chatRequests>>]
               /\ UNCHANGED <<chatUi, chatRequests, chatSends>>
          ELSE /\ chatSends < MaxSends
               /\ chatSends' = chatSends + 1
               /\ conversationHistory' = Append(conversationHistory, userMessage)
               /\ messageInput' = <<>>
               /\ selectedFile' = Null
               /\ chatIsLoading' = TRUE
               /\ errorMessage' = ""
               /\ chatRequests' =
                     Append(chatRequests,
                            [origin |-> "component",
                             body |-> [message |-> StringValue(message),
                                       conversationHistory |->
                                          Stringify(Array(HistoryForApi(
                                             Append(conversationHistory, userMessage))))],
                             file |-> selectedFile])
               /\ chatEvent' = [name |-> "sendMessage", sent |-> TRUE]
       /\ UNCHANGED <<notChat, chatResponses>>

\* another client posts to /api/chat-multimodal
Post(message, history) ==
    /\ Cardinality({i \in DOMAIN chatRequests : chatRequests[i].origin = "client"})
          < MaxPosts
    /\ chatRequests' =
          Append(chatRequests,
                 [origin |-> "client",
                  body |-> [message |-> message, conversationHistory |-> history],
                  file |-> Null])
    /\ chatEvent' = [name |-> "post"]
    /\ UNCHANGED <<notChat, chatUi, chatResponses, chatSends>>

\* the handler has answered request i: a response for the component travels
\* back to it
Answered(i, listing, contents, response) ==
    /\ chatRequests' = Without(chatRequests, i)
    /\ chatResponses' =
          IF chatRequests[i].origin = "component"
          THEN Append(chatResponses, response) ELSE chatResponses
    /\ chatEvent' = [name |-> "handled", listing |-> listing, request |-> chatRequests[i],
                     contents |-> contents, response |-> response]
    /\ UNCHANGED <<notChat, chatUi, chatSends>>

\* backend/index.js: the handler, with the outcome of model.generateContent
ChatMultimodal(i, outcome) ==
    \E body \in {chatRequests[i].body} :
       IF MessageRejected(body.message)
       THEN Answered(i, "index.js", <<>>, MessageRequired)
       ELSE \E history \in {ParseHistory(HistoryField(body))} :
            \E contents \in
                 {Contents([text |-> <<SystemPrompt, body.message.chars>>], history,
                           body.message.chars, chatRequests[i].file)} :
               IF outcome = "throws"
               THEN Answered(i, "index.js", contents, ChatError)
               ELSE Answered(i, "index.js", contents,
                             ChatAnswer(history, body.message.chars, outcome,
                                        "Gagal memproses permintaan multimodal"))

\* the README listing: its inner catch block reads error.message, and no
\* error is in scope there: the ReferenceError reaches the outer catch
ChatMultimodalCached(i, outcome) ==
    \E body \in {chatRequests[i].body} :
       IF body.message = Undefined \/ body.message.chars = <<>>
       THEN Answered(i, "README", <<>>, MessageRequired)
       ELSE IF ~JsonParse(HistoryField(body)).ok
       THEN Answered(i, "README", <<>>, ChatError)
       ELSE \E history \in {ParseHistory(HistoryField(body))} :
            \E contents \in
                 {Contents([text |-> <<SystemPrompt>>], history,
                           body.message.chars, chatRequests[i].file)} :
               IF outcome = "throws"
               THEN Answered(i, "README", contents, ChatError)
               ELSE Answered(i, "README", contents,
                             ChatAnswer(history, body.message.chars, outcome,
                                        "Gagal memproses permintaan"))

\* the component's POST gets no response from the backend
ChatRequestFails(i) ==
    /\ chatRequests[i].origin = "component"
    /\ chatRequests' = Without(chatRequests, i)
    /\ chatResponses' = Append(chatResponses, [status |-> 0, body |-> [error |-> "Unknown Error"]])
    /\ chatEvent' = [name |-> "requestFailed"]
    /\ UNCHANGED <<notChat, chatUi, chatSends>>

\* the subscriber of sendMessage: next on a 200, error (through catchError
\* and throwError of AiClient) otherwise
ChatResponseArrives(j) ==
    /\ IF chatResponses[j].status = 200
       THEN /\ conversationHistory' =
                  Append(conversationHistory,
                         [role |-> "assistant", content |-> chatResponses[j].body.result,
                          file |-> Null])
            /\ UNCHANGED errorMessage
       ELSE /\ errorMessage' = "Gagal memproses permintaan multimodal"
            /\ UNCHANGED conversationHistory
    /\ chatIsLoading' = FALSE
    /\ chatResponses' = Without(chatResponses, j)
    /\ chatEvent' = [name |-> "responseArrived"]
    /\ UNCHANGED <<notChat, messageInput, selectedFile, chatRequests, chatSends>>

\* the component, with the backend answering its requests
NextChat ==
    \/ \E text \in MessageTexts : SetMessageInput(text)
    \/ \E file \in Files : OnFileSelected(file)
    \/ ClearFile
    \/ SendMessage
    \/ \E i \in DOMAIN chatRequests : \E outcome \in ModelOutcomes : ChatMultimodal(i, outcome)
    \/ \E i \in DOMAIN chatRequests : \E outcome \in ModelOutcomes :
          ChatMultimodalCached(i, outcome)
    \/ \E i \in DOMAIN chatRequests : ChatRequestFails(i)
    \/ \E j \in DOMAIN chatResponses : ChatResponseArrives(j)

SpecChat == InitChat /\ [][NextChat]_vars

\* the endpoint, with clients that post what they like
NextChatApi ==
    \/ \E message \in PostedMessages, history \in PostedHistories : Post(message, history)
    \/ \E i \in DOMAIN chatRequests : \E outcome \in ModelOutcomes : ChatMultimodal(i, outcome)
    \/ \E i \in DOMAIN chatRequests : \E outcome \in ModelOutcomes :
          ChatMultimodalCached(i, outcome)

SpecChatApi == InitChat /\ [][NextChatApi]_vars

TypeOKChat ==
    /\ chatIsLoading \in BOOLEAN
    /\ messageInput \in MessageTexts
    /\ selectedFile \in Files \cup {Null}
    /\ chatSends \in 0 .. MaxSends
    /\ Len(chatRequests) <= MaxSends + MaxPosts
    /\ \A k \in DOMAIN conversationHistory :
          conversationHistory[k].role \in {"user", "assistant"}

(***************************************************************************)
(* Vocabulary of the properties, written from the contract and not from    *)
(* the operators above.                                                    *)
(***************************************************************************)
Called(b) == out[b] # NotCalled

Returned(b) == out[b].kind = "return"

Threw(b) == out[b].kind = "throw"

Positive(x) == x[1] > 0

NonNegative(x) == x[1] >= 0

AllConstraintsHold(in) ==
    /\ Positive(in.amount)
    /\ Positive(in.interestRate)
    /\ Positive(in.tenor)
    /\ Positive(in.monthlyIncome)
    /\ NonNegative(in.adminFee)

FirstViolatedField(in) ==
    CASE ~Positive(in.amount) -> "amount"
      [] Positive(in.amount) /\ ~Positive(in.interestRate) -> "interestRate"
      [] Positive(in.amount) /\ Positive(in.interestRate) /\ ~Positive(in.tenor) -> "tenor"
      [] Positive(in.amount) /\ Positive(in.interestRate) /\ Positive(in.tenor)
            /\ ~Positive(in.monthlyIncome) -> "monthlyIncome"
      [] OTHER -> "adminFee"

MessageOfField ==
    [amount |-> "Jumlah pinjaman harus lebih dari 0",
     interestRate |-> "Suku bunga harus lebih dari 0",
     tenor |-> "Tenor harus lebih dari 0",
     monthlyIncome |-> "Gaji bulanan harus lebih dari 0",
     adminFee |-> "Biaya admin tidak boleh negatif"]

MetricFields ==
    {"totalRepayment", "monthlyInstallment", "effectiveApr", "dtiRatio",
     "riskScore", "riskLevel"}

\* x > k for a positive integer k
Exceeds(x, k) == Len(x) = 2 /\ x[1] > k * x[2]

DtiSevere(in) == Exceeds(DtiRatio(in), 40)

DtiModerate(in) == Exceeds(DtiRatio(in), 30) /\ ~DtiSevere(in)

AprSevere(in) == Exceeds(EffectiveApr(in), 36)

AprModerate(in) == Exceeds(EffectiveApr(in), 20) /\ ~AprSevere(in)

LevelRank ==
    [l \in {"Rendah", "Sedang", "Tinggi", "Sangat Berbahaya"} |->
        CASE l = "Rendah" -> 0 [] l = "Sedang" -> 1 [] l = "Tinggi" -> 2
          [] OTHER -> 3]

\* C1: every returned riskScore is an integer in 0 .. 100, for both values
\* of isRegistered (the three contributions never sum to more than 100).
C1_RiskScoreInRange ==
    \A b \in BOOLEAN : Returned(b) =>
        out[b].riskScore \in Int /\ out[b].riskScore >= 0 /\ out[b].riskScore <= 100

\* C2: the riskScore is 50 if unregistered, plus 30/15/0 by the unrounded
\* dtiRatio against 40 and 30, plus 30/10/0 by the effectiveApr against 36
\* and 20, and nothing else.
C2_ScoreIsSumOfFactors ==
    \A b \in BOOLEAN : Returned(b) =>
        out[b].riskScore =
            (IF b THEN 0 ELSE 50)
            + (IF DtiSevere(input) THEN 30 ELSE IF DtiModerate(input) THEN 15 ELSE 0)
            + (IF AprSevere(input) THEN 30 ELSE IF AprModerate(input) THEN 10 ELSE 0)

\* C2 witness: an APR of exactly 36 is scored as moderate, with a moderate
\* DTI, for an unregistered lender.
C2_Witness ==
    /\ Returned(FALSE) /\ out[FALSE].riskScore = 75
    /\ EffectiveApr(input) = R(36) /\ DtiModerate(input)

\* C3: riskLevel is the step function of riskScore (>= 75, 50..74, 25..49,
\* below 25), and of two results the one with the higher score never has the
\* lower tier.
C3_LevelIsStepOfScore ==
    /\ \A b \in BOOLEAN : Returned(b) =>
          out[b].riskLevel =
              CASE out[b].riskScore >= 75 -> "Sangat Berbahaya"
                [] out[b].riskScore >= 50 /\ out[b].riskScore <= 74 -> "Tinggi"
                [] out[b].riskScore >= 25 /\ out[b].riskScore <= 49 -> "Sedang"
                [] OTHER -> "Rendah"
    /\ \A b, c \in BOOLEAN : Returned(b) /\ Returned(c)
          /\ out[b].riskScore <= out[c].riskScore
          => LevelRank[out[b].riskLevel] <= LevelRank[out[c].riskLevel]

\* C3 witness: scores on the tier boundaries 25 and 75 for one input.
C3_Witness ==
    /\ Returned(TRUE) /\ out[TRUE].riskScore = 25 /\ out[TRUE].riskLevel = "Sedang"
    /\ Returned(FALSE) /\ out[FALSE].riskScore = 75
    /\ out[FALSE].riskLevel = "Sangat Berbahaya"

\* C4: a call returns a LoanMetrics exactly when the five constraints hold;
\* otherwise it throws, carries no metric, and reports the first failing
\* check in the order amount, interestRate, tenor, monthlyIncome, adminFee.
C4_ValidationFailFast ==
    \A b \in BOOLEAN : Called(b) =>
        /\ Returned(b) <=> AllConstraintsHold(input)
        /\ Returned(b) => MetricFields \subseteq DOMAIN out[b]
        /\ ~Returned(b) =>
              /\ Threw(b)
              /\ DOMAIN out[b] \cap MetricFields = {}
              /\ out[b].message = MessageOfField[FirstViolatedField(input)]

\* C4 witness: amount and interestRate (and more) violated at once, the
\* amount is the one reported.
C4_Witness ==
    /\ Threw(TRUE)
    /\ ~Positive(input.amount) /\ ~Positive(input.interestRate)
    /\ ~NonNegative(input.adminFee)
    /\ out[TRUE].message = MessageOfField["amount"]

\* C5 (as claimed): every failure is a ValidationError value that carries
\* the name of the first violated field and a human-readable message.
C5_FailureIsValidationError ==
    \A b \in BOOLEAN : Called(b) /\ ~Returned(b) =>
        /\ out[b].name = "ValidationError"
        /\ "field" \in DOMAIN out[b]
        /\ "message" \in DOMAIN out[b]

\* C5 (amended): every failure is a plain Error that carries a message and
\* nothing else; the message is one of five fixed texts, one per field, and
\* it is the text of the first violated field.
C5_FailureIsErrorWithMessage ==
    \A b \in BOOLEAN : Called(b) /\ ~Returned(b) =>
        /\ Threw(b)
        /\ out[b].name = "Error"
        /\ DOMAIN out[b] = {"kind", "name", "message"}
        /\ \E f \in DOMAIN MessageOfField :
              /\ out[b].message = MessageOfField[f]
              /\ f = FirstViolatedField(input)
              /\ \A g \in DOMAIN MessageOfField :
                    MessageOfField[g] = out[b].message => g = f

\* C5 witness: only the admin fee is violated and its message is thrown.
C5_Witness ==
    /\ Threw(FALSE)
    /\ Positive(input.amount) /\ Positive(input.interestRate)
    /\ Positive(input.tenor) /\ Positive(input.monthlyIncome)
    /\ ~NonNegative(input.adminFee)
    /\ out[FALSE].message = "Biaya admin tidak boleh negatif"

\* C6: with isRegistered = true the riskLevel is never Sangat Berbahaya,
\* since the two financial factors contribute at most 60.
C6_RegisteredNeverTopTier ==
    Returned(TRUE) =>
        /\ out[TRUE].riskLevel # "Sangat Berbahaya"
        /\ out[TRUE].riskScore <= 60

\* C6 witness: a registered lender with both financial factors severe.
C6_Witness ==
    /\ Returned(TRUE) /\ DtiSevere(input) /\ AprSevere(input)
    /\ out[TRUE].riskScore = 60 /\ out[TRUE].riskLevel = "Tinggi"

\* C7 (as claimed): Sangat Berbahaya implies an unregistered lender and a
\* severe financial factor, and an unregistered loan with both factors only
\* moderate does not reach the top tier.
C7_TopTierNeedsSevereFactor ==
    \A b \in BOOLEAN : Returned(b) =>
        /\ out[b].riskLevel = "Sangat Berbahaya" =>
              ~b /\ (DtiSevere(input) \/ AprSevere(input))
        /\ ~b /\ DtiModerate(input) /\ AprModerate(input) =>
              out[b].riskLevel # "Sangat Berbahaya"

\* C7 (amended): Sangat Berbahaya is returned exactly when the lender is
\* unregistered and either a financial factor is severe or both are at
\* least moderate; both moderate scores exactly 75 and is in the top tier.
C7_TopTierCondition ==
    \A b \in BOOLEAN : Returned(b) =>
        /\ out[b].riskLevel = "Sangat Berbahaya" <=>
              /\ ~b
              /\ \/ DtiSevere(input)
                 \/ AprSevere(input)
                 \/ DtiModerate(input) /\ AprModerate(input)
        /\ ~b /\ DtiModerate(input) /\ AprModerate(input) =>
              out[b].riskScore = 75

\* C7 witness: unregistered, both factors moderate, top tier.
C7_Witness ==
    /\ Returned(FALSE) /\ DtiModerate(input) /\ AprModerate(input)
    /\ out[FALSE].riskLevel = "Sangat Berbahaya"

\* C8: for one input, the score with isRegistered = false is exactly 50 more
\* than the score with isRegistered = true, which holds no legality points
\* (it is one of the sums of the two financial contributions).
C8_LegalityPenaltyIsFifty ==
    /\ Returned(TRUE) /\ Returned(FALSE) =>
          out[FALSE].riskScore = out[TRUE].riskScore + 50
    /\ Returned(TRUE) =>
          out[TRUE].riskScore \in {0, 10, 15, 25, 30, 40, 45, 60}

\* C8 witness: both calls made for a valid input with a non-zero score.
C8_Witness ==
    /\ Returned(TRUE) /\ Returned(FALSE)
    /\ out[TRUE].riskScore = 15 /\ out[FALSE].riskScore = 65

\* C10 (as claimed): reducing_balance with interestRate = 0 and the other
\* fields valid yields totalInterest = 0 (totalRepayment = amount + adminFee)
\* and monthlyInstallment = (amount + adminFee) / tenorInMonths.
ZeroRateReducing(in) ==
    /\ in.interestType = "reducing_balance"
    /\ in.interestRate = Zero
    /\ Positive(in.amount) /\ Positive(in.tenor) /\ Positive(in.monthlyIncome)
    /\ NonNegative(in.adminFee)

C10_ZeroRateYieldsMetrics ==
    \A b \in BOOLEAN : Called(b) /\ ZeroRateReducing(input) =>
        /\ Returned(b)
        /\ out[b].totalRepayment = Round2(RAdd(input.amount, input.adminFee))
        /\ out[b].monthlyInstallment =
              Round2(RDiv(RAdd(input.amount, input.adminFee), TenorInMonths(input)))

\* C10 (amended): calculateMetrics rejects interestRate = 0 with the interest
\* rate message and returns no metrics; only calculateReducingBalanceInterest
\* itself, given a zero rate, yields totalInterest = 0 and
\* monthlyInstallment = (principal + adminFee) / tenorInMonths.
C10_ZeroRateIsRejected ==
    \A b \in BOOLEAN : Called(b) /\ ZeroRateReducing(input) =>
        /\ Threw(b)
        /\ out[b].message = "Suku bunga harus lebih dari 0"
        /\ CalculateReducingBalanceInterest(input.amount, Zero,
               TenorInMonths(input), input.adminFee)
           = [monthlyInstallment |->
                  Norm(input.amount[1] * input.adminFee[2]
                           + input.adminFee[1] * input.amount[2],
                       input.amount[2] * input.adminFee[2] * TenorInMonths(input)[1]),
              totalInterest |-> <<0, 1>>]

\* C10 witness: calculateMetrics was called on a zero-rate reducing_balance
\* loan whose other fields are valid.
C10_Witness ==
    /\ ZeroRateReducing(input) /\ Called(TRUE) /\ Called(FALSE)
    /\ input.adminFee # Zero

\* C11: for daily and monthly_flat loans whose tenorInMonths rounds to 0
\* (a tenor of a few days) the installment divisor is 1: monthlyInstallment
\* equals amount + totalInterest + adminFee and never exceeds totalRepayment.
TenorRoundsToZero(in) == 2 * TenorInMonths(in)[1] < TenorInMonths(in)[2]

C11_ShortTenorDivisorIsOne ==
    \A b \in BOOLEAN :
        /\ Returned(b)
        /\ input.interestType \in {"daily", "monthly_flat"}
        /\ TenorRoundsToZero(input)
        => /\ out[b].monthlyInstallment = out[b].totalRepayment
           /\ RLe(out[b].monthlyInstallment, out[b].totalRepayment)

\* C12: the affordability contribution is decided by the returned dtiRatio:
\* a returned dtiRatio of exactly 30.00 gets 0 affordability points and a
\* returned dtiRatio of 30.01 gets 15.
AffordabilityPoints(b) ==
    out[b].riskScore - (IF b THEN 0 ELSE 50)
        - (IF AprSevere(input) THEN 30 ELSE IF AprModerate(input) THEN 10 ELSE 0)

C12_ReturnedDtiDecidesPoints ==
    \A b \in BOOLEAN : Returned(b) =>
        /\ out[b].dtiRatio = <<30, 1>> => AffordabilityPoints(b) = 0
        /\ out[b].dtiRatio = <<3001, 100>> => AffordabilityPoints(b) = 15

\* C13: amount 1,000,000 at 1% daily for 30 days, adminFee 50,000, income
\* 5,000,000, unregistered, gives totalRepayment 1,350,000, effectiveApr 365,
\* monthlyInstallment 1,350,000, dtiRatio 27, riskScore 80, Sangat Berbahaya.
IsScenarioDaily(in) ==
    /\ in.amount = <<1000000, 1>> /\ in.interestRate = <<1, 1>>
    /\ in.interestType = "daily" /\ in.tenor = <<30, 1>> /\ in.tenorUnit = "days"
    /\ in.adminFee = <<50000, 1>> /\ in.monthlyIncome = <<5000000, 1>>

C13_DailyScenario ==
    IsScenarioDaily(input) /\ Called(FALSE) =>
        /\ Returned(FALSE)
        /\ out[FALSE].totalRepayment = <<1350000, 1>>
        /\ out[FALSE].effectiveApr = <<365, 1>>
        /\ out[FALSE].monthlyInstallment = <<1350000, 1>>
        /\ out[FALSE].dtiRatio = <<27, 1>>
        /\ out[FALSE].riskScore = 80
        /\ out[FALSE].riskLevel = "Sangat Berbahaya"

\* C13 witness: the scenario was calculated for an unregistered lender.
C13_Witness == IsScenarioDaily(input) /\ Returned(FALSE)

\* C14: total interest is amount x (interestRate/100) x tenorInDays for daily
\* (tenor, or tenor x 30 when the unit is months) and amount x
\* (interestRate/100) x tenorInMonths for monthly_flat (tenor, or tenor / 30
\* when the unit is days); for every interest type the unrounded
\* totalRepayment is amount + totalInterest + adminFee.
SimpleInterest(in) ==
    LET periods ==
            IF in.interestType = "daily"
            THEN (IF in.tenorUnit = "days" THEN in.tenor
                  ELSE Norm(in.tenor[1] * 30, in.tenor[2]))
            ELSE (IF in.tenorUnit = "months" THEN in.tenor
                  ELSE Norm(in.tenor[1], in.tenor[2] * 30))
        product == Norm(in.amount[1] * in.interestRate[1] * periods[1],
                        in.amount[2] * in.interestRate[2] * periods[2] * 100)
    IN  IF Len(in.interestRate) = 3 THEN <<product[1], product[2], 1>> ELSE product

C14_SimpleInterestAndRepayment ==
    \A b \in BOOLEAN : Returned(b) =>
        /\ input.interestType \in {"daily", "monthly_flat"} =>
              TotalInterest(input) = SimpleInterest(input)
        /\ TotalRepayment(input)
              = RAdd(RAdd(input.amount, TotalInterest(input)), input.adminFee)
        /\ out[b].totalRepayment
              = Round2(RAdd(RAdd(input.amount, TotalInterest(input)), input.adminFee))

\* C14 witness: a daily loan with its tenor in months (1 at 1% per day for
\* 2 months, fee 1: interest 0.6, repayment 2.6).
C14_Witness ==
    /\ Returned(TRUE) /\ input.interestType = "daily" /\ input.tenorUnit = "months"
    /\ input.amount = <<1, 1>> /\ input.interestRate = <<1, 1>>
    /\ input.tenor = <<2, 1>> /\ input.adminFee = <<1, 1>>
    /\ out[TRUE].totalRepayment = <<13, 5>>

\* C15: effectiveApr depends on interestRate and interestType only: the rate
\* times 365 for daily, times 12 for monthly_flat and reducing_balance.
C15_AprFromRateAndType ==
    \A b \in BOOLEAN : Returned(b) =>
        out[b].effectiveApr =
            Round2(RMul(input.interestRate,
                        IF input.interestType = "daily" THEN <<365, 1>> ELSE <<12, 1>>))

\* C15 witness: a reducing_balance loan of 2 months at 3% per month has an
\* effectiveApr of 36, whatever its tenor.
C15_Witness ==
    /\ Returned(TRUE) /\ input.interestType = "reducing_balance"
    /\ input.interestRate = <<3, 1>> /\ input.tenor = <<2, 1>>
    /\ input.tenorUnit = "months"
    /\ out[TRUE].effectiveApr = <<36, 1>>

\* base^n on integers
RECURSIVE IntPow(_, _)
IntPow(base, n) == IF n = 0 THEN 1 ELSE base * IntPow(base, n - 1)

\* amount x r x (1+r)^n / ((1+r)^n - 1) for a rate of k percent, over integers
AmortizedPortion(in) ==
    LET n == TenorInMonths(in)[1]
        k == in.interestRate[1]
        grown == IntPow(100 + k, n)
        flat == IntPow(100, n)
    IN  Norm(in.amount[1] * k * grown, in.amount[2] * 100 * (grown - flat))

\* C16: for reducing_balance with n whole months and r = interestRate/100 > 0
\* the principal-and-interest portion is amount x r x (1+r)^n / ((1+r)^n - 1),
\* monthlyInstallment is the portion plus adminFee / n, totalInterest is the
\* portion x n - amount, and totalInterest is the same for every adminFee.
C16_AmortizationFormula ==
    \A b \in BOOLEAN :
        Returned(b) /\ input.interestType = "reducing_balance" =>
            LET n == TenorInMonths(input)
                portion == AmortizedPortion(input)
            IN  /\ MonthlyInstallment(input) = RAdd(portion, RDiv(input.adminFee, n))
                /\ out[b].monthlyInstallment
                      = Round2(RAdd(portion, RDiv(input.adminFee, n)))
                /\ TotalInterest(input) = RSub(RMul(portion, n), input.amount)
                /\ \A fee \in Fees : NonNegative(fee) =>
                      TotalInterest([input EXCEPT !.adminFee = fee])
                          = TotalInterest(input)

\* Finite(x): x is a finite number (neither Infinity nor -Infinity)
Finite(x) == Len(x) = 3 \/ x[2] # 0

\* AmortizationDivisor(in): (1 + r)^n - 1 as the program's arithmetic yields it
AmortizationDivisor(in) ==
    RSub(Pow(RAdd(R(1), RDiv(in.interestRate, R(100))), TenorInMonths(in)[1]), R(1))

\* C17: for every input that passes validation no division has a zero
\* divisor (tenorInMonths, monthlyIncome and (1+r)^n - 1 are non-zero) and
\* every returned metric is a finite number.
C17_NoZeroDivisorAllFinite ==
    \A b \in BOOLEAN :
        Returned(b) =>
            /\ TenorInMonths(input) # Zero
            /\ input.monthlyIncome # Zero
            /\ input.interestType = "reducing_balance" =>
                  AmortizationDivisor(input) # Zero
            /\ \A f \in {"totalRepayment", "monthlyInstallment",
                         "effectiveApr", "dtiRatio"} : Finite(out[b][f])

(***************************************************************************)
(* App.analyzeLoan: the state right after a callback of call i has run.    *)
(***************************************************************************)
After(name) == lastHandler.name = name

LastCall == calls[lastHandler.call]

\* calculateMetrics threw inside the callback that ran last
RejectedNow ==
    /\ lastHandler.name \in {"verifyResponds", "verifyFails"}
    /\ LastCall.stage = "calcFailed"

\* C18: when metrics were computed and the explanation request then fails,
\* the analysis remains displayed (hasResult, and currentMetrics holds the
\* metrics of this input), hasAiError is true and isAiLoading is false.
C18_AiFailureKeepsAnalysis ==
    After("explanationFails") =>
        /\ hasResult
        /\ currentMetrics = LastCall.metrics
        /\ hasAiError
        /\ ~isAiLoading

\* C19: when calculateMetrics rejects the input during analyzeLoan, the
\* failure is not reported as an AI-explanation failure (hasAiError stays
\* false) and no metrics of a different input remain displayed as the result
\* for the rejected input.
C19_RejectionIsInputError ==
    RejectedNow =>
        /\ ~hasAiError
        /\ ~(hasResult /\ currentInput = LastCall.input)

\* C20: when the verification request fails, verify yields false and
\* analyzeLoan still computes and displays the metrics with
\* isRegistered = false: the riskScore includes the 50-point penalty and
\* isOjkRegistered is false.
C20_VerifyFailureFallsBackToUnregistered ==
    After("verifyFails") =>
        LET metrics == CalculateMetrics(LastCall.input, FALSE)
        IN  /\ LastCall.verifyFailed
            /\ LastCall.ojkStatus = FALSE
            /\ metrics.kind = "return" =>
                  /\ hasResult /\ ~showEmptyState
                  /\ currentMetrics = metrics
                  /\ isOjkRegisteredSignal = FALSE
                  /\ currentMetrics.riskScore
                        = 50 + CalculateMetrics(LastCall.input, TRUE).riskScore

\* C20 witness: the failed verification of a valid input has just been
\* handled and its metrics, penalty included, are displayed.
C20_Witness ==
    /\ After("verifyFails")
    /\ LastCall.stage = "explaining"
    /\ hasResult /\ currentMetrics.riskScore >= 50

\* C21: after every call to analyzeLoan, provided each HTTP request
\* eventually completes or fails, isAiLoading eventually becomes false again,
\* whichever way the flow ends.
C21_LoadingEventuallyEnds == isAiLoading ~> ~isAiLoading

\* C21 witness: a flow has ended in a calculation error and the loading flag
\* is down again.
C21_Witness ==
    /\ \E i \in 1 .. Len(calls) : calls[i].stage = "calcFailed"
    /\ \E i \in 1 .. Len(calls) : calls[i].stage = "aiFailed"
    /\ \A i \in 1 .. Len(calls) : calls[i].stage # "verifying"
    /\ \A i \in 1 .. Len(calls) : calls[i].stage # "explaining"
    /\ ~isAiLoading

(***************************************************************************)
(* getOjkDataWithCache: the state right after one of its steps.            *)
(***************************************************************************)
\* a call for the endpoint has just been made, at the time now
CallMade == cacheEvent.name \in {"hit", "miss"}

\* some fetch for the endpoint has succeeded, the latest of them at time t
FetchedAt(endpoint, t) == t > 0 /\ newest[endpoint] = t

\* C22: after a successful fetch for an endpoint at time t, every call for
\* that endpoint made before t + 12 hours returns the cached list without an
\* upstream request, and a call made at or after t + 12 hours attempts a new
\* upstream fetch.
C22_FreshCacheServes ==
    CallMade =>
        LET endpoint == cacheEvent.endpoint
            t == newest[endpoint]
        IN  /\ FetchedAt(endpoint, t) /\ now < t + CACHE_DURATION =>
                  /\ cacheEvent.name = "hit"
                  /\ cacheEvent.value = ojkCache[endpoint].data
            /\ now >= t + CACHE_DURATION => cacheEvent.name = "miss"

\* the upstream fetch of a call has just failed
FetchFailed == cacheEvent.name = "failed"

\* what the failed call returns and leaves behind
FailureServesCache ==
    LET endpoint == cacheEvent.endpoint
        before == cacheEvent.before
    IN  /\ cacheEvent.value.kind = "array"
        /\ before.data # Null => cacheEvent.value = before.data
        /\ before.data = Null => cacheEvent.value.items = <<>>
        /\ ojkCache[endpoint] = before

\* C23: when the upstream fetch fails the function does not throw: it
\* returns the previously cached list if one exists, however old, and an
\* empty list otherwise; the cache entry is left unchanged, so the next call
\* retries the fetch.
C23_FailureLeavesRetry ==
    FetchFailed =>
        /\ FailureServesCache
        /\ ~CacheValid(ojkCache[cacheEvent.endpoint], now)

\* C23 (amended): as above, and the next call retries the fetch unless the
\* fetch of another call for the endpoint, made less than 12 hours ago, has
\* succeeded in the meantime.
C23_FailureServesStale ==
    FetchFailed =>
        /\ FailureServesCache
        /\ LET t == newest[cacheEvent.endpoint]
           IN  ~(t > 0 /\ now - t < CACHE_DURATION) =>
                   ~CacheValid(ojkCache[cacheEvent.endpoint], now)

\* C23 witness: a failed fetch has just returned a list cached more than 12
\* hours before.
C23_Witness ==
    /\ FetchFailed
    /\ cacheEvent.before.data # Null
    /\ now - cacheEvent.before.timestamp >= CACHE_DURATION
    /\ cacheEvent.value = cacheEvent.before.data


(***************************************************************************)
(* POST /api/verify-lender: which list decides the answer.                 *)
(***************************************************************************)
LenderAnswered == vlPc = "done"

LenderAnsweredOk == vlPc = "done" /\ vlResponse.status = 200

\* the posted name as the lists are searched for it
Requested == CollapseSpaces(Trim(ToLowerCase(vlBody.lenderName.chars)))

OneContainsOther(a, b) == Includes(a, b) \/ Includes(b, a)

MatchesRegistered ==
    \E i \in DOMAIN ojk.apps :
       OneContainsOther(ToLowerCase(ojk.apps[i].name), Requested)

MatchesIllegal ==
    \E i \in DOMAIN ojk.illegals :
       \/ OneContainsOther(ToLowerCase(ojk.illegals[i].name), Requested)
       \/ /\ ojk.illegals[i].alias # Null
          /\ \E k \in DOMAIN ojk.illegals[i].alias.items :
                OneContainsOther(ToLowerCase(ojk.illegals[i].alias.items[k]), Requested)

Says(field, value) ==
    field \in DOMAIN vlResponse.body /\ vlResponse.body[field] = value

\* C24: a name found in the registered list the handler obtained is answered
\* as registered even when the illegal list has it too; no response says
\* isRegistered = true and isIllegal = true at once; a name found in neither
\* list is answered isRegistered = false, isIllegal = false.
C24_RegisteredBeforeIllegal ==
    /\ vlResponse # Null => ~(Says("isRegistered", TRUE) /\ Says("isIllegal", TRUE))
    /\ (LenderAnswered /\ vlApps = Array(ojk.apps) /\ MatchesRegistered /\ MatchesIllegal)
          => Says("isRegistered", TRUE) /\ vlResponse.status = 200
    /\ (LenderAnsweredOk /\ ~MatchesRegistered /\ ~MatchesIllegal)
          => Says("isRegistered", FALSE) /\ Says("isIllegal", FALSE)

C24_Witness ==
    /\ LenderAnswered /\ vlApps = Array(ojk.apps)
    /\ MatchesRegistered /\ MatchesIllegal
    /\ Says("isRegistered", TRUE)
    /\ "isIllegal" \notin DOMAIN vlResponse.body


(***************************************************************************)
(* The loan form: the verification status it shows, and what it emits.     *)
(***************************************************************************)
Verified == formEvent.name = "verified"

BodySays(body, field) == field \in DOMAIN body /\ body[field] = TRUE

\* C25: after a verification response the status is 'illegal' if the response
\* has isIllegal, else 'registered' if it has isRegistered, else
\* 'unregistered'; after a failed request it is 'none'; isVerifying is false.
C25_FailureShowsNone ==
    Verified =>
       /\ isVerifying = FALSE
       /\ verificationStatus =
             IF ~formEvent.outcome.ok THEN "none"
             ELSE IF BodySays(formEvent.outcome.body, "isIllegal") THEN "illegal"
             ELSE IF BodySays(formEvent.outcome.body, "isRegistered") THEN "registered"
             ELSE "unregistered"

\* C28: a status other than 'none' was set by the response for the lender
\* name the form holds now.
C28_StatusDescribesCurrentName ==
    verificationStatus # "none" => statusFor = Term(form.lenderName)

Processed == formEvent.name = "processForm"

Emitted == Processed /\ formEvent.emitted # Null

AtLeast(control, min) == control # Null /\ RLe(min, control.value)

\* the validity the form is said to demand
MeetsMinimums ==
    /\ AtLeast(form.amount, R(1)) /\ AtLeast(form.interestRate, <<1, 100>>)
    /\ AtLeast(form.tenor, R(1)) /\ AtLeast(form.monthlyIncome, R(1))
    /\ form.adminFee = Null \/ AtLeast(form.adminFee, R(0))
    /\ form.interestType # "" /\ form.tenorUnit # ""

\* C29: processForm emits exactly when the form is valid; a valid form meets
\* the minimums of its controls, and calculateMetrics returns (does not
\* throw) on every input emitted.
C29_EmittedInputIsValid ==
    Processed =>
       /\ formEvent.emitted # Null <=> FormValid(form)
       /\ FormValid(form) => MeetsMinimums
       /\ formEvent.emitted # Null =>
             \A b \in BOOLEAN : CalculateMetrics(formEvent.emitted, b).kind = "return"

C29_Witness ==
    /\ Emitted
    /\ form.adminFee = Null /\ formEvent.emitted.adminFee = R(0)
    /\ form.interestRate = Num(<<1, 100>>)


(***************************************************************************)
(* App under overlapping analyzeLoan calls.                                *)
(***************************************************************************)
InFlight(i) == calls[i].stage \in {"verifying", "explaining"}

NoRequestInFlight == calls # <<>> /\ \A i \in DOMAIN calls : ~InFlight(i)

\* the call that set currentInput still waits for a response
LatestInFlight == calls # <<>> /\ InFlight(Len(calls))

\* C27: once no request is in flight, the metrics and the OJK flag shown are
\* those calculated for currentInput (when its calculation returned), and an
\* explanation shown was generated for currentInput; isAiLoading is true as
\* long as the latest call has a request in flight.
C27_DisplayedStateConsistent ==
    /\ NoRequestInFlight =>
          /\ \A b \in BOOLEAN :
                (isOjkRegisteredSignal = b /\ currentMetrics # Null
                    /\ CalculateMetrics(currentInput, b).kind = "return")
                   => currentMetrics = CalculateMetrics(currentInput, b)
          /\ aiExplanation # "" => calls[explainedCall].input = currentInput
    /\ LatestInFlight => isAiLoading


(***************************************************************************)
(* The multimodal chat endpoint and the component that posts to it.        *)
(***************************************************************************)
Handled == chatEvent.name = "handled"

\* the posted conversationHistory is not JSON, or is JSON but not an array
HistoryUnusable ==
    /\ chatEvent.request.body.conversationHistory # Undefined
    /\ \/ ~JsonParse(chatEvent.request.body.conversationHistory).ok
       \/ JsonParse(chatEvent.request.body.conversationHistory).value.kind # "array"

MessagePresent ==
    /\ chatEvent.request.body.message # Undefined
    /\ chatEvent.request.body.message.chars # <<>>

\* C26: a request whose conversationHistory is not valid JSON or not an array
\* is handled with an empty history: the model is called with the system
\* prompt and the current message only, and unless the model call itself
\* fails the response is a 200 whose conversationHistory is exactly the user
\* message and the assistant result.
C26_BadHistoryStartsFresh ==
    (Handled /\ MessagePresent /\ HistoryUnusable) =>
       /\ Len(chatEvent.contents) = 2
       /\ chatEvent.response.status # 200 => chatEvent.response = ChatError
       /\ chatEvent.response.status = 200 =>
             /\ Len(chatEvent.response.body.conversationHistory) = 2
             /\ chatEvent.response.body.conversationHistory[1] =
                   Message("user", chatEvent.request.body.message.chars)
             /\ chatEvent.response.body.conversationHistory[2] =
                   Message("assistant", chatEvent.response.body.result)

\* C30: no request sent by the component is answered 400 'Message is
\* required'; sendMessage with blank text and no file leaves the component
\* as it was and posts nothing.
C30_SentMessagesAccepted ==
    /\ (Handled /\ chatEvent.request.origin = "component")
          => chatEvent.response # MessageRequired
    /\ (chatEvent.name = "sendMessage" /\ ~chatEvent.sent)
          => chatEvent.before = <<chatUi, chatRequests>>

====
